---- MODULE Spec2Model ----
(***************************************************************************)
(* A model of loggerkit's multi-sink delivery core.                        *)
(*                                                                         *)
(* Two Elasticsearch writers live in the repository and both are modelled: *)
(*   "corefactories"  provider/zapx/corefactories (closed guard, retry     *)
(*                    wrapper chosen by ElasticFactory.Build)              *)
(*   "zapx"           provider/zapx/elasticsearch_writer.go, the writer    *)
(*                    that coreBuilder.buildElasticsearchCore wires into   *)
(*                    NewWithOptions                                       *)
(*                                                                         *)
(* SpecSink drives one Elasticsearch sink directly (Write / Sync / Close   *)
(* from several goroutines).  Spec drives the logger facade built by       *)
(* NewWithOptions (construction, log calls, Close).                        *)
(***************************************************************************)
EXTENDS Integers, Sequences, FiniteSets, TLC

\* ------------------------------------------------------------------ bounds
NumThreads == 2
MaxOps == 2
MaxRetry == 1

Threads == 1..NumThreads

\* --------------------------------------------------------------- constants
Variants == {"corefactories", "zapx"}

ErrClosed == "elasticsearch writer is closed"
ErrParse == "failed to parse log entry as JSON"
ErrAdd == "indexer add error"
ErrDeadline == "context deadline exceeded"

\* context.WithTimeout(context.Background(), 30*time.Second): the context the
\* writer hands to indexer.Close, derived from no caller context
OwnContext == "background+30s"

Service == "app"

VARIABLES
    \* --- Elasticsearch sink configuration
    variant,        \* which elasticsearchWriter implementation the sink is
    retryMax,       \* ElasticSink.Retry.Max
    metricsOn,      \* metrics != nil
    \* --- elasticsearchWriter fields
    closed,         \* w.closed (corefactories) / closeCh closed (zapx)
    closeOnce,      \* w.closeOnce: "idle" | "running" | "done"
    dlqFile,        \* w.dlqFile: "nil" | "open" | "closed"
    dlq,            \* the lines of the DLQ file
    indexer,        \* the bulk indexer: queue, closed, closeCalls, addCalls, stopped
    backend,        \* documents the backend has indexed
    wsLock,         \* zapcore.Lock around the sink's WriteSyncer: 0 or the holder
    metrics,        \* logs_written_total, logs_dropped_total, es_bulk_retries_total
    \* --- goroutines
    pc,             \* where each goroutine is
    call,           \* the sink-level call each goroutine is in (or last finished)
    nOps,           \* operations started so far
    \* --- history
    dlqCloses,      \* number of dlqFile.Close() calls
    closeReturned,  \* some elasticsearchWriter.Close call has returned
    \* --- logger facade
    opts,           \* the logger.Options handed to NewWithOptions
    lg,             \* the zapAdapter: cores, closers, and what Close has invoked
    frame,          \* the logger-level call each goroutine is in (or last finished)
    out,            \* what the console and the file have received
    \* --- derived loggers
    handles,        \* the loggers derived with With: parent, added and ambient fields
    emitted,        \* the records logged through the handles
    \* --- factory registry
    factories,      \* the package-level slice of registered factories
    factoriesMu,    \* the sync.RWMutex: its writer and its readers
    rpc,            \* where each goroutine is in RegisterFactory / Factories
    rcall,          \* the locals of that call
    regOrder,       \* history: the descriptors in the order their appends ran
    regDone,        \* history: the descriptors whose RegisterFactory returned
    snapshots,      \* history: the snapshots Factories built, in the order built
    \* --- dead-letter file, byte by byte
    dlqBytes,       \* the bytes of the DLQ file
    dlqMutex,       \* the goroutine holding dlqMutex (0: none)
    dpc,            \* where each goroutine is in writeToDLQ
    dcall,          \* the arguments of that call
    dlqAppends,     \* history: the (reason, data) of each entry, in the order written
    \* --- retry backoff
    retryConfig,    \* the Retry configuration of a retryableWriter
    boAttempt,      \* the attempt the retry loop is at
    boLast,         \* history: the last backoff computed and the one before it
    \* --- index names
    indexPattern,   \* w.indexPattern, as the segments it is made of
    service,        \* w.service
    now,            \* time.Now().UTC(): year, month, day
    indexName,      \* what generateIndexName returned
    \* --- fallback logger of package contextLogger
    fbLogger,       \* the package variable: "nil", the default, or the one set
    fbOnce,         \* fbOnce: "idle" | "running" | "done"
    fbMu,           \* the sync.RWMutex: its writer and its readers
    fpc,            \* where each goroutine is in SetFallbackLogger / getFallback
    fcall,          \* the locals of that call
    fbHist          \* history: SetFallbackLogger called / returned, defaults built,
                    \* lookups made

cfgVars == <<variant, retryMax, metricsOn>>
esVars == <<closed, closeOnce, dlqFile, dlq, indexer, backend, wsLock, metrics>>
thVars == <<pc, call, nOps>>
histVars == <<dlqCloses, closeReturned>>
lgVars == <<opts, lg, frame, out>>
withVars == <<handles, emitted>>
regVars == <<factories, factoriesMu, rpc, rcall, regOrder, regDone, snapshots>>
dlqVars == <<dlqBytes, dlqMutex, dpc, dcall, dlqAppends>>
boVars == <<retryConfig, boAttempt, boLast>>
inVars == <<indexPattern, service, now, indexName>>
fbVars == <<fbLogger, fbOnce, fbMu, fpc, fcall, fbHist>>
auxVars == <<withVars, regVars, dlqVars, boVars, inVars, fbVars>>
outsideWith ==
    <<cfgVars, esVars, thVars, histVars, lgVars, regVars, dlqVars, boVars, inVars, fbVars>>
outsideReg ==
    <<cfgVars, esVars, thVars, histVars, lgVars, withVars, dlqVars, boVars, inVars, fbVars>>
outsideDLQ ==
    <<cfgVars, esVars, thVars, histVars, lgVars, withVars, regVars, boVars, inVars, fbVars>>
outsideBackoff ==
    <<cfgVars, esVars, thVars, histVars, lgVars, withVars, regVars, dlqVars, inVars, fbVars>>
outsideIndexName ==
    <<cfgVars, esVars, thVars, histVars, lgVars, withVars, regVars, dlqVars, boVars, fbVars>>
outsideFallback ==
    <<cfgVars, esVars, thVars, histVars, lgVars, withVars, regVars, dlqVars, boVars, inVars>>
sinkAndLogger == <<cfgVars, esVars, thVars, histVars, lgVars>>
vars == <<sinkAndLogger, auxVars>>

\* ------------------------------------------------------------------ metrics
Levels == {"debug", "info", "warn", "error"}
Sinks == {"zap", "console", "file", "elasticsearch"}
DropReasons == {"write_error", "writer_closed", "indexer_add_error", "indexer_full",
                "retries_exhausted", "index_failure"}

NoMetrics == [written |-> [k \in Levels \X Sinks |-> 0],
              dropped |-> [k \in Sinks \X DropReasons |-> 0],
              retries |-> 0]

\* Metrics.RecordLogWritten: one increment of logs_written_total{level,sink}
RecordLogWritten(m, level, sink) ==
    IF metricsOn THEN [m EXCEPT !.written[<<level, sink>>] = @ + 1] ELSE m

\* Metrics.RecordLogDropped: one increment of logs_dropped_total{sink,reason}
RecordLogDropped(m, sink, reason) ==
    IF metricsOn THEN [m EXCEPT !.dropped[<<sink, reason>>] = @ + 1] ELSE m

\* (mutant) the retry counter counts the failed attempt as well as the retry
RecordESBulkRetryPerAttempt(m) ==
    IF metricsOn THEN [m EXCEPT !.retries = @ + 2] ELSE m

\* Metrics.RecordESBulkRetry: one increment of es_bulk_retries_total{reason}
RecordESBulkRetry(m) ==
    IF metricsOn THEN [m EXCEPT !.retries = @ + 1] ELSE m

Dropped(sink, reason) == metrics.dropped[<<sink, reason>>]

\* ------------------------------------------------------------ pure helpers
\* json.Unmarshal of the pre-encoded line into a generic document
Unmarshal(line) ==
    IF line.kind = "object"
    THEN [ok |-> TRUE, doc |-> [msg |-> line.id]]
    ELSE [ok |-> FALSE, doc |-> [msg |-> <<>>]]

\* logEntry["service"] = w.service, then json.Marshal
Enrich(line) == [msg |-> Unmarshal(line).doc.msg, service |-> Service]

\* ElasticFactory.Build wraps the writer only when Retry.Max > 0;
\* buildElasticsearchCore never wraps
Wrapped == variant = "corefactories" /\ retryMax > 0

\* writeToDLQ: the new contents of the DLQ file
writeToDLQ(file, q, data, reason) ==
    IF file = "open"
    THEN Append(q, [reason |-> reason, original_log |-> data])
    ELSE q

\* the call record after one more writeToDLQ call (history: reason, data, file)
Tried(c, data, reason) ==
    [c EXCEPT !.tried = Append(@, [reason |-> reason, original_log |-> data,
                                   file |-> dlqFile])]

\* ret: where the goroutine continues when the sink call returns
NewCall(op, line, ret) ==
    [op |-> op, line |-> line, attempt |-> 0, lastErr |-> "nil",
     inner |-> <<>>, sleeps |-> 0, adds |-> 0, addFails |-> 0, tried |-> <<>>,
     result |-> "pending", afterClose |-> closeReturned, ret |-> ret,
     ctx |-> "none", pending |-> {}, ixErr |-> "none"]

NoLine == [id |-> 0, kind |-> "none"]
NoCall == [op |-> "none", line |-> NoLine, attempt |-> 0, lastErr |-> "nil",
           inner |-> <<>>, sleeps |-> 0, adds |-> 0, addFails |-> 0, tried |-> <<>>,
           result |-> "pending", afterClose |-> FALSE, ret |-> "idle",
           ctx |-> "none", pending |-> {}, ixErr |-> "none"]

\* first step of elasticsearchWriter.Write that touches shared state
InnerEntry(line) ==
    IF variant = "corefactories" THEN "w_guard"
    ELSE IF Unmarshal(line).ok THEN "w_add" ELSE "w_dlq_parse"

\* ------------------------------------------------------------------- Write
\* The call returns r to the core: the WriteSyncer lock is released.
Return(t, r, c) ==
    /\ call' = [call EXCEPT ![t] = [c EXCEPT !.result = r]]
    /\ pc' = [pc EXCEPT ![t] = c.ret]
    /\ wsLock' = 0

\* (mutant) the retry loop stops one attempt early
InnerReturnOffByOne(t, r, c) ==
    LET c1 == [c EXCEPT !.inner = Append(@, r)] IN
    IF Wrapped /\ r # "nil"
    THEN /\ call' = [call EXCEPT ![t] = [c1 EXCEPT !.lastErr = r]]
         /\ pc' = [pc EXCEPT ![t] =
                     IF c1.attempt + 1 < retryMax THEN "w_sleep" ELSE "w_dlq_exhausted"]
         /\ UNCHANGED wsLock
    ELSE Return(t, r, c1)

\* elasticsearchWriter.Write returned r; retryableWriter.Write decides
InnerReturn(t, r, c) ==
    LET c1 == [c EXCEPT !.inner = Append(@, r)] IN
    IF Wrapped /\ r # "nil"
    THEN /\ call' = [call EXCEPT ![t] = [c1 EXCEPT !.lastErr = r]]
         /\ pc' = [pc EXCEPT ![t] =
                     IF c1.attempt < retryMax THEN "w_sleep" ELSE "w_dlq_exhausted"]
         /\ UNCHANGED wsLock
    ELSE Return(t, r, c1)

\* the core calls Write on the locked WriteSyncer
EnterWrite(t, line, ret) ==
    /\ wsLock = 0
    /\ wsLock' = t
    /\ call' = [call EXCEPT ![t] = NewCall("write", line, ret)]
    /\ pc' = [pc EXCEPT ![t] = InnerEntry(line)]

StartWrite(t, kind) ==
    /\ pc[t] = "idle"
    /\ nOps < MaxOps
    /\ EnterWrite(t, [id |-> nOps + 1, kind |-> kind], "idle")
    /\ nOps' = nOps + 1
    /\ UNCHANGED <<auxVars, cfgVars, lgVars, closed, closeOnce, dlqFile, dlq, indexer, backend,
                   metrics, histVars>>

\* corefactories Write: the closed guard, then json.Unmarshal
WriteGuard(t) ==
    /\ pc[t] = "w_guard"
    /\ pc' = [pc EXCEPT ![t] =
                IF closed THEN "w_dlq_closed"
                ELSE IF Unmarshal(call[t].line).ok THEN "w_add" ELSE "w_dlq_parse"]
    /\ UNCHANGED <<auxVars, cfgVars, lgVars, esVars, call, nOps, histVars>>

WriteClosedDLQ(t) ==
    /\ pc[t] = "w_dlq_closed"
    /\ dlq' = writeToDLQ(dlqFile, dlq, call[t].line, "writer_closed")
    /\ metrics' = RecordLogDropped(metrics, "elasticsearch", "writer_closed")
    /\ InnerReturn(t, ErrClosed, Tried(call[t], call[t].line, "writer_closed"))
    /\ UNCHANGED <<auxVars, cfgVars, lgVars, closed, closeOnce, dlqFile, indexer, backend, nOps,
                   histVars>>

WriteParseDLQ(t) ==
    /\ pc[t] = "w_dlq_parse"
    /\ dlq' = writeToDLQ(dlqFile, dlq, call[t].line, "json_parse_error")
    /\ InnerReturn(t, ErrParse, Tried(call[t], call[t].line, "json_parse_error"))
    /\ UNCHANGED <<auxVars, cfgVars, lgVars, closed, closeOnce, dlqFile, indexer, backend, metrics,
                   nOps, histVars>>

\* esIndexer.Add: the item is queued, or the add is rejected
IndexerAdd(ix, item, ok) ==
    [ix EXCEPT !.addCalls = @ + 1,
               !.addsWhenClosed = @ + (IF ix.closed THEN 1 ELSE 0),
               !.queue = IF ok THEN Append(@, item) ELSE @]

WriteAdd(t) ==
    /\ pc[t] = "w_add"
    /\ \E ok \in BOOLEAN :
         LET c == [call[t] EXCEPT !.adds = @ + 1,
                                  !.addFails = @ + (IF ok THEN 0 ELSE 1)] IN
         /\ indexer' = IndexerAdd(indexer, Enrich(call[t].line), ok)
         /\ IF ok
            THEN /\ InnerReturn(t, "nil", c)
                 /\ UNCHANGED metrics
            ELSE IF variant = "corefactories"
            THEN /\ metrics' =
                      RecordLogDropped(metrics, "elasticsearch", "indexer_add_error")
                 /\ InnerReturn(t, ErrAdd, c)
            ELSE /\ call' = [call EXCEPT ![t] = c]
                 /\ pc' = [pc EXCEPT ![t] = "w_dlq_add"]
                 /\ UNCHANGED <<metrics, wsLock>>
    /\ UNCHANGED <<auxVars, cfgVars, lgVars, closed, closeOnce, dlqFile, dlq, backend, nOps, histVars>>

\* zapx Write: a rejected add goes to the DLQ and the write reports success
WriteAddDLQ(t) ==
    /\ pc[t] = "w_dlq_add"
    /\ dlq' = writeToDLQ(dlqFile, dlq, Enrich(call[t].line), "indexer_add_error")
    /\ metrics' = RecordLogDropped(metrics, "elasticsearch", "indexer_full")
    /\ InnerReturn(t, "nil", Tried(call[t], Enrich(call[t].line), "indexer_add_error"))
    /\ UNCHANGED <<auxVars, cfgVars, lgVars, closed, closeOnce, dlqFile, indexer, backend, nOps,
                   histVars>>

\* retryableWriter.Write: backoff sleep, retry metric, next attempt
RetrySleep(t) ==
    /\ pc[t] = "w_sleep"
    /\ metrics' = RecordESBulkRetry(metrics)
    /\ call' = [call EXCEPT ![t].attempt = @ + 1, ![t].sleeps = @ + 1]
    /\ pc' = [pc EXCEPT ![t] = "w_guard"]
    /\ UNCHANGED <<auxVars, cfgVars, lgVars, closed, closeOnce, dlqFile, dlq, indexer, backend,
                   wsLock, nOps, histVars>>

\* retryableWriter.Write: retries exhausted
RetryExhausted(t) ==
    /\ pc[t] = "w_dlq_exhausted"
    /\ dlq' = writeToDLQ(dlqFile, dlq, call[t].line, "retries_exhausted")
    /\ metrics' = RecordLogDropped(metrics, "elasticsearch", "retries_exhausted")
    /\ Return(t, call[t].lastErr, Tried(call[t], call[t].line, "retries_exhausted"))
    /\ UNCHANGED <<auxVars, cfgVars, lgVars, closed, closeOnce, dlqFile, indexer, backend, nOps,
                   histVars>>

\* ------------------------------------------------------------ bulk indexer
\* esIndexer.Close is called: no more flush ticks, the queue is drained
IndexerClose(ix) ==
    [ix EXCEPT !.closed = TRUE,
               !.closeCalls = @ + 1,
               !.stopped = @ \/ ix.queue = <<>>]

\* (mutant) several workers: a document queued later may be flushed first
NextToFlushSeveralWorkers(queue) == Len(queue)

\* NumWorkers: 1, the single worker takes the queued documents in order
NextToFlush(queue) == 1

\* the indexer's worker flushes one queued document
IndexerFlush ==
    /\ indexer.queue # <<>>
    /\ ~indexer.stopped
    /\ LET n == NextToFlush(indexer.queue)
           d == indexer.queue[n]
           rest == SubSeq(indexer.queue, 1, n - 1)
                       \o SubSeq(indexer.queue, n + 1, Len(indexer.queue)) IN
       /\ indexer' = [indexer EXCEPT !.queue = rest,
                                     !.stopped = indexer.closed /\ rest = <<>>]
       /\ \E indexed \in BOOLEAN :
            IF indexed
            THEN /\ backend' = Append(backend, d)
                 /\ metrics' = IF variant = "zapx"
                               THEN RecordLogWritten(metrics, "info", "elasticsearch")
                               ELSE metrics
                 /\ UNCHANGED dlq
            ELSE /\ dlq' = writeToDLQ(dlqFile, dlq, d, "index_error_400")
                 /\ metrics' = RecordLogDropped(metrics, "elasticsearch", "index_failure")
                 /\ UNCHANGED backend
    /\ UNCHANGED <<auxVars, cfgVars, lgVars, closed, closeOnce, dlqFile, wsLock, thVars, histVars>>

\* indexer.Close(ctx) returned r to the goroutine waiting in it; Close
\* discards r (history: ixErr)
AfterIndexerClose(t, r) ==
    IF call[t].op = "sync"
    THEN /\ Return(t, r, call[t])
    ELSE /\ pc' = [pc EXCEPT ![t] = "c_dlq"]
         /\ call' = [call EXCEPT ![t].ixErr = r]
         /\ UNCHANGED wsLock

\* (mutant) indexer.Close reports success without waiting for the pending batch
IndexerCloseDoneEarly(t) ==
    /\ pc[t] = "ix_wait"
    /\ AfterIndexerClose(t, "nil")
    /\ UNCHANGED <<auxVars, cfgVars, lgVars, closed, closeOnce, dlqFile, dlq, indexer, backend,
                   metrics, nOps, histVars>>

\* indexer.Close returns nil once the pending batch is flushed
IndexerCloseDone(t) ==
    /\ pc[t] = "ix_wait"
    /\ indexer.queue = <<>>
    /\ AfterIndexerClose(t, "nil")
    /\ UNCHANGED <<auxVars, cfgVars, lgVars, closed, closeOnce, dlqFile, dlq, indexer, backend,
                   metrics, nOps, histVars>>

\* the writer's own 30 s context expires while the flush is still in flight
IndexerCloseTimeout(t) ==
    /\ pc[t] = "ix_wait"
    /\ indexer.queue # <<>>
    /\ AfterIndexerClose(t, ErrDeadline)
    /\ UNCHANGED <<auxVars, cfgVars, lgVars, closed, closeOnce, dlqFile, dlq, indexer, backend,
                   metrics, nOps, histVars>>

\* -------------------------------------------------------------------- Sync
\* corefactories: Sync returns nil.  zapx: Sync closes the bulk indexer.
EnterSync(t, ret) ==
    /\ wsLock = 0
    /\ IF variant = "corefactories"
       THEN /\ call' = [call EXCEPT ![t] =
                          [NewCall("sync", NoLine, ret) EXCEPT !.result = "nil"]]
            /\ pc' = [pc EXCEPT ![t] = ret]
            /\ UNCHANGED <<wsLock, indexer>>
       ELSE /\ call' = [call EXCEPT ![t] =
                          [NewCall("sync", NoLine, ret) EXCEPT !.ctx = OwnContext]]
            /\ pc' = [pc EXCEPT ![t] = "ix_wait"]
            /\ wsLock' = t
            /\ indexer' = IndexerClose(indexer)

StartSync(t) ==
    /\ pc[t] = "idle"
    /\ nOps < MaxOps
    /\ nOps' = nOps + 1
    /\ EnterSync(t, "idle")
    /\ UNCHANGED <<auxVars, cfgVars, lgVars, closed, closeOnce, dlqFile, dlq, backend, metrics,
                   histVars>>

\* ------------------------------------------------------------------- Close
\* sync.Once.Do: the first caller runs the body, a caller that arrives while
\* it runs waits for it, a later caller returns at once
OnceEnter(once) ==
    IF once = "idle" THEN "run" ELSE IF once = "running" THEN "wait" ELSE "skip"

\* the records still queued in the bulk indexer whose Write has returned
QueuedReturned ==
    {indexer.queue[i].msg : i \in 1..Len(indexer.queue)} \
        {call[u].line.id : u \in {v \in Threads : call[v].op = "write"
                                                  /\ call[v].result = "pending"}}

EnterClose(t, ret) ==
    LET how == OnceEnter(closeOnce) IN
    /\ call' = [call EXCEPT ![t] =
                  [NewCall("close", NoLine, ret) EXCEPT
                     !.result = IF how = "skip" THEN "nil" ELSE "pending",
                     !.ctx = IF how = "run" THEN OwnContext ELSE "none",
                     !.pending = QueuedReturned]]
    /\ pc' = [pc EXCEPT ![t] =
                IF how = "run" THEN "c_indexer"
                ELSE IF how = "wait" THEN "c_blocked" ELSE ret]
    /\ closeOnce' = IF how = "run" THEN "running" ELSE closeOnce
    /\ closed' = IF how = "run" THEN TRUE ELSE closed
    /\ closeReturned' = (closeReturned \/ how = "skip")

StartClose(t) ==
    /\ pc[t] = "idle"
    /\ nOps < MaxOps
    /\ nOps' = nOps + 1
    /\ EnterClose(t, "idle")
    /\ UNCHANGED <<auxVars, cfgVars, lgVars, dlqFile, dlq, indexer, backend, wsLock, metrics,
                   dlqCloses>>

\* Close body: w.indexer.Close(ctx) under a 30 s context of its own
CloseIndexer(t) ==
    /\ pc[t] = "c_indexer"
    /\ indexer' = IndexerClose(indexer)
    /\ pc' = [pc EXCEPT ![t] = "ix_wait"]
    /\ UNCHANGED <<auxVars, cfgVars, lgVars, closed, closeOnce, dlqFile, dlq, backend, wsLock,
                   metrics, call, nOps, histVars>>

\* Close body: close the DLQ file under dlqMutex; the Once is done
CloseDLQ(t) ==
    /\ pc[t] = "c_dlq"
    /\ dlqFile' = IF dlqFile = "nil" THEN "nil" ELSE "closed"
    /\ dlqCloses' = dlqCloses + (IF dlqFile = "nil" THEN 0 ELSE 1)
    /\ closeOnce' = "done"
    /\ closeReturned' = TRUE
    /\ call' = [call EXCEPT ![t].result = "nil"]
    /\ pc' = [pc EXCEPT ![t] = call[t].ret]
    /\ UNCHANGED <<auxVars, cfgVars, lgVars, closed, dlq, indexer, backend, wsLock, metrics, nOps>>

\* a Close that waited in Once.Do returns when the body has finished
CloseWake(t) ==
    /\ pc[t] = "c_blocked"
    /\ closeOnce = "done"
    /\ call' = [call EXCEPT ![t].result = "nil"]
    /\ pc' = [pc EXCEPT ![t] = call[t].ret]
    /\ closeReturned' = TRUE
    /\ UNCHANGED <<auxVars, cfgVars, lgVars, esVars, nOps, dlqCloses>>

\* ----------------------------------------------------------- logger facade
Envs == {"dev", "prod", "staging"}
OptLevels == {"warn", "verbose"}
LogLevels == {"info", "error"}
Closers == {"file", "elasticsearch"}

ErrWrite == "write error"
ErrFileClose == "file close error"
ErrSync == "failed to sync logger"
ErrNoSinks == "no log sinks configured"

\* opts.Sampling, when set: the first Initial records of a level in a tick are
\* kept, then every Thereafter-th
SamplingInitial == 1
SamplingThereafter == 2

OptionSet ==
    [env : Envs, level : OptLevels, stacktraceAt : {"error"},
     disableConsole : BOOLEAN, file : BOOLEAN, elastic : BOOLEAN,
     metrics : BOOLEAN, sampling : BOOLEAN]

NoOptions == [env |-> "none", level |-> "none", stacktraceAt |-> "none",
              disableConsole |-> FALSE, file |-> FALSE, elastic |-> FALSE,
              metrics |-> FALSE, sampling |-> FALSE]

NoLogger == [state |-> "none", err |-> "nil", lvl |-> "info", cores |-> <<>>,
             closers |-> <<>>, fallback |-> FALSE, syncCalls |-> 0,
             closerCalls |-> [k \in Closers |-> 0],
             counts |-> [l \in LogLevels |-> 0]]

NoFrame == [op |-> "none", id |-> 0, level |-> "none", ctx |-> "none", i |-> 0,
            res |-> <<>>, lastErr |-> "nil", result |-> "pending",
            dropped |-> FALSE, syncErr |-> "nil", via |-> 0]

\* by (history): the goroutine that logged each record, by record id (0 for
\* the id of a Close call)
NoOutput == [console |-> <<>>, file |-> <<>>, by |-> <<>>]

\* parseLevel: the zapcore level, or an error for an unknown name
parseLevel(level) ==
    IF level = "debug" THEN [lvl |-> "debug", err |-> "nil"]
    ELSE IF level = "info" THEN [lvl |-> "info", err |-> "nil"]
    ELSE IF level \in {"warn", "warning"} THEN [lvl |-> "warn", err |-> "nil"]
    ELSE IF level = "error" THEN [lvl |-> "error", err |-> "nil"]
    ELSE [lvl |-> "info", err |-> "unknown level"]

\* the order of zapcore levels
LevelRank(l) ==
    CASE l = "debug" -> 0 [] l = "info" -> 1 [] l = "warn" -> 2 [] OTHER -> 3

\* coreBuilder.buildCores: the cores and the closers, in the order built
buildCores(o) ==
    LET shouldAddConsole == o.env = "dev"
        c0 == IF shouldAddConsole THEN <<"console">> ELSE <<>>
        c1 == IF o.file THEN Append(c0, "file") ELSE c0
        c2 == IF o.elastic THEN Append(c1, "elasticsearch") ELSE c1
        c3 == IF o.env = "prod" /\ Len(c2) = 0 THEN Append(c2, "console") ELSE c2
        k1 == IF o.file THEN <<"file">> ELSE <<>>
        k2 == IF o.elastic THEN Append(k1, "elasticsearch") ELSE k1
    IN [cores |-> c3, closers |-> k2]

FailedLogger(err) == [NoLogger EXCEPT !.state = "failed", !.err = err]

\* NewWithOptions: esOK, whether newElasticsearchWriter succeeds; regOK,
\* whether AutoRegisterMetrics succeeds
NewLogger(o, esOK, regOK) ==
    IF parseLevel(o.level).err # "nil" THEN FailedLogger("invalid log level")
    ELSE IF parseLevel(o.stacktraceAt).err # "nil"
    THEN FailedLogger("invalid stacktrace level")
    ELSE IF o.metrics /\ ~regOK THEN FailedLogger("failed to auto-register metrics")
    ELSE IF o.elastic /\ ~esOK THEN FailedLogger("failed to build cores")
    ELSE LET b == buildCores(o) IN
         [NoLogger EXCEPT !.state = "built",
                          !.lvl = parseLevel(o.level).lvl,
                          !.cores = IF Len(b.cores) = 0 THEN <<"console">> ELSE b.cores,
                          !.fallback = Len(b.cores) = 0,
                          !.closers = b.closers]

NewWithOptions ==
    /\ lg.state = "none"
    /\ \E esOK \in BOOLEAN, regOK \in BOOLEAN : lg' = NewLogger(opts, esOK, regOK)
    /\ UNCHANGED <<auxVars, cfgVars, esVars, thVars, histVars, opts, frame, out>>

\* (mutant) a fan-out that gives up at the first core that returns an error
TeeStopAtFirstError(i, err) == IF err = "nil" THEN i + 1 ELSE Len(lg.cores) + 1

\* zapcore.NewTee: the core written after core i, whatever core i returned
TeeNext(i, err) == i + 1

\* the write of core frame[t].i returned r
AfterCore(t, r) ==
    LET f == [frame[t] EXCEPT !.res = Append(@, r)]
        n == TeeNext(f.i, r) IN
    IF n > Len(lg.cores)
    THEN /\ frame' = [frame EXCEPT ![t] = [f EXCEPT !.i = n, !.result = "returned"]]
         /\ pc' = [pc EXCEPT ![t] = "idle"]
    ELSE /\ frame' = [frame EXCEPT ![t] = [f EXCEPT !.i = n]]
         /\ pc' = [pc EXCEPT ![t] = "l_core"]

\* zapcore.NewSampler(core, time.Second, Initial, Thereafter): of the records
\* of one level in one tick, the n-th is dropped when it is past the first
\* Initial and not a Thereafter-th one after them
SamplerDrops(n) ==
    n > SamplingInitial /\ (n - SamplingInitial) % SamplingThereafter # 0

\* (mutant) the sampler wraps the first core only: a record it drops skips
\* that core and is still written to the others
FirstCorePerSinkSampler(dropped) == IF dropped THEN 2 ELSE 1

\* the sampler wraps the combined core: the first core a record is written
\* to, none when the sampler drops the record
FirstCore(dropped) == IF dropped THEN Len(lg.cores) + 1 ELSE 1

\* zapAdapter.log: the "zap" written metric, the level check of the cores,
\* then the sampler, when configured, in front of the combined core; tick,
\* whether the sampler's tick (one second) has elapsed since it last counted a
\* record of this level, so that its counter starts again; h, the logger the
\* call is made through (0: the one NewWithOptions returned; otherwise one
\* derived with With, whose zap logger shares the core of its parent)
LogVia(t, h, level, tick) ==
    /\ pc[t] = "idle"
    /\ lg.state = "built"
    /\ nOps < MaxOps
    /\ nOps' = nOps + 1
    /\ metrics' = RecordLogWritten(metrics, level, "zap")
    /\ LET f == [NoFrame EXCEPT !.op = "log", !.id = nOps + 1, !.level = level,
                                !.i = 1, !.via = h] IN
       IF LevelRank(level) >= LevelRank(lg.lvl)
       THEN LET n == IF tick THEN 1 ELSE lg.counts[level] + 1
                dropped == opts.sampling /\ SamplerDrops(n)
                first == FirstCore(dropped) IN
            /\ lg' = IF opts.sampling THEN [lg EXCEPT !.counts[level] = n] ELSE lg
            /\ IF first > Len(lg.cores)
               THEN /\ frame' = [frame EXCEPT ![t] =
                                    [f EXCEPT !.dropped = dropped, !.i = first,
                                              !.result = "returned"]]
                    /\ UNCHANGED pc
               ELSE /\ frame' = [frame EXCEPT ![t] =
                                    [f EXCEPT !.dropped = dropped, !.i = first]]
                    /\ pc' = [pc EXCEPT ![t] = "l_core"]
       ELSE /\ frame' = [frame EXCEPT ![t] = [f EXCEPT !.result = "returned"]]
            /\ UNCHANGED <<pc, lg>>
    /\ out' = [out EXCEPT !.by = Append(@, t)]
    /\ UNCHANGED <<auxVars, cfgVars, closed, closeOnce, dlqFile, dlq, indexer, backend,
                   wsLock, call, histVars, opts>>

\* a log call on the logger NewWithOptions returned
LogCall(t, level, tick) == LogVia(t, 0, level, tick)

\* the console core or the file core writes the encoded record
CoreWrite(t) ==
    /\ pc[t] = "l_core"
    /\ LET core == lg.cores[frame[t].i] IN
       /\ core \in {"console", "file"}
       /\ \E ok \in BOOLEAN :
            /\ out' = IF ok THEN [out EXCEPT ![core] = Append(@, frame[t].id)] ELSE out
            /\ metrics' = IF core # "file" THEN metrics
                          ELSE IF ok THEN RecordLogWritten(metrics, "info", "file")
                          ELSE RecordLogDropped(metrics, "file", "write_error")
            /\ AfterCore(t, IF ok THEN "nil" ELSE ErrWrite)
    /\ UNCHANGED <<auxVars, cfgVars, closed, closeOnce, dlqFile, dlq, indexer, backend,
                   wsLock, call, nOps, histVars, opts, lg>>

\* the Elasticsearch core hands the encoded record to the locked writer
CoreWriteES(t) ==
    /\ pc[t] = "l_core"
    /\ lg.cores[frame[t].i] = "elasticsearch"
    /\ EnterWrite(t, [id |-> frame[t].id, kind |-> "object"], "l_ret")
    /\ UNCHANGED <<auxVars, cfgVars, closed, closeOnce, dlqFile, dlq, indexer, backend,
                   metrics, nOps, histVars, lgVars>>

CoreReturnES(t) ==
    /\ pc[t] = "l_ret"
    /\ AfterCore(t, call[t].result)
    /\ UNCHANGED <<auxVars, cfgVars, esVars, call, nOps, histVars, opts, lg, out>>

\* zapAdapter.Close(ctx): l.zl.Sync() first; only the Elasticsearch writer's
\* Sync does anything; h, the logger Close is called on: a derived logger
\* holds the closers of its parent (closers: l.closers)
CloseVia(t, h, ctx) ==
    /\ pc[t] = "idle"
    /\ lg.state = "built"
    /\ nOps < MaxOps
    /\ nOps' = nOps + 1
    /\ frame' = [frame EXCEPT ![t] =
                   [NoFrame EXCEPT !.op = "close", !.id = nOps + 1, !.ctx = ctx,
                                   !.i = 1, !.via = h]]
    /\ lg' = [lg EXCEPT !.syncCalls = @ + 1]
    /\ pc' = [pc EXCEPT ![t] =
                IF \E k \in 1..Len(lg.cores) : lg.cores[k] = "elasticsearch"
                THEN "lc_sync" ELSE "lc_closers"]
    /\ out' = [out EXCEPT !.by = Append(@, 0)]
    /\ UNCHANGED <<auxVars, cfgVars, esVars, call, histVars, opts>>

\* Close on the logger NewWithOptions returned
LoggerClose(t, ctx) == CloseVia(t, 0, ctx)

CloseSyncES(t) ==
    /\ pc[t] = "lc_sync"
    /\ EnterSync(t, "lc_synced")
    /\ UNCHANGED <<auxVars, cfgVars, closed, closeOnce, dlqFile, dlq, backend, metrics,
                   nOps, histVars, lgVars>>

\* a sync error is returned before any closer runs (history: syncErr, what
\* l.zl.Sync() returned)
CloseAfterSync(t) ==
    /\ pc[t] = "lc_synced"
    /\ IF call[t].result # "nil"
       THEN /\ frame' = [frame EXCEPT ![t].result = ErrSync,
                                      ![t].syncErr = call[t].result]
            /\ pc' = [pc EXCEPT ![t] = "idle"]
       ELSE /\ pc' = [pc EXCEPT ![t] = "lc_closers"]
            /\ UNCHANGED frame
    /\ UNCHANGED <<auxVars, cfgVars, esVars, call, nOps, histVars, opts, lg, out>>

\* the closer loop reaches the file closer: lj.Close()
CloserFile(t) ==
    /\ pc[t] = "lc_closers"
    /\ frame[t].i <= Len(lg.closers)
    /\ lg.closers[frame[t].i] = "file"
    /\ lg' = [lg EXCEPT !.closerCalls["file"] = @ + 1]
    /\ \E err \in {"nil", ErrFileClose} :
         frame' = [frame EXCEPT ![t].res = Append(@, [closer |-> "file", err |-> err]),
                                ![t].lastErr = IF err # "nil" THEN err ELSE @,
                                ![t].i = @ + 1]
    /\ UNCHANGED <<auxVars, cfgVars, esVars, thVars, histVars, opts, out>>

\* the closer loop reaches esWriter.Close
CloserES(t) ==
    /\ pc[t] = "lc_closers"
    /\ frame[t].i <= Len(lg.closers)
    /\ lg.closers[frame[t].i] = "elasticsearch"
    /\ lg' = [lg EXCEPT !.closerCalls["elasticsearch"] = @ + 1]
    /\ EnterClose(t, "lc_closed")
    /\ UNCHANGED <<auxVars, cfgVars, dlqFile, dlq, indexer, backend, wsLock, metrics, nOps,
                   dlqCloses, opts, frame, out>>

CloserESReturn(t) ==
    /\ pc[t] = "lc_closed"
    /\ frame' = [frame EXCEPT
                   ![t].res = Append(@, [closer |-> "elasticsearch",
                                         err |-> call[t].result]),
                   ![t].lastErr = IF call[t].result # "nil" THEN call[t].result ELSE @,
                   ![t].i = @ + 1]
    /\ pc' = [pc EXCEPT ![t] = "lc_closers"]
    /\ UNCHANGED <<auxVars, cfgVars, esVars, call, nOps, histVars, opts, lg, out>>

\* the closer loop is over: Close returns lastErr
CloseFinish(t) ==
    /\ pc[t] = "lc_closers"
    /\ frame[t].i > Len(lg.closers)
    /\ frame' = [frame EXCEPT ![t].result = frame[t].lastErr]
    /\ pc' = [pc EXCEPT ![t] = "idle"]
    /\ UNCHANGED <<auxVars, cfgVars, esVars, call, nOps, histVars, opts, lg, out>>

\* ------------------------------------------------------- the sink on its own
\* the derived-logger part of the state when no logger is derived
WithIdle ==
    /\ handles = <<>>
    /\ emitted = <<>>

NoRegCall == [op |-> "none", f |-> 0, local |-> <<>>, n |-> 0, before |-> {}]

\* the registry before any factory is registered
RegIdle ==
    /\ factories = <<>>
    /\ factoriesMu = [writer |-> 0, readers |-> {}]
    /\ rpc = [t \in Threads |-> "idle"]
    /\ rcall = [t \in Threads |-> NoRegCall]
    /\ regOrder = <<>>
    /\ regDone = {}
    /\ snapshots = <<>>

NoDLQCall == [data |-> <<>>, reason |-> "none"]

\* the DLQ file just opened, nobody in writeToDLQ
DLQIdle ==
    /\ dlqBytes = <<>>
    /\ dlqMutex = 0
    /\ dpc = [t \in Threads |-> "idle"]
    /\ dcall = [t \in Threads |-> NoDLQCall]
    /\ dlqAppends = <<>>

NoRetry == [Max |-> 0, BackoffMin |-> 0, BackoffMax |-> 0]
NoBackoff == [attempt |-> 0, unjittered |-> 0, slept |-> 0, before |-> 0, any |-> FALSE]

\* no retryableWriter under study
BackoffIdle ==
    /\ retryConfig = NoRetry
    /\ boAttempt = 0
    /\ boLast = NoBackoff

NoDate == [year |-> 0, month |-> 0, day |-> 0]

\* no index name under study
IndexNameIdle ==
    /\ indexPattern = <<>>
    /\ service = <<>>
    /\ now = NoDate
    /\ indexName = <<"none">>

NoFbCall == [op |-> "none", l |-> "nil", afterSet |-> FALSE, result |-> "pending"]
NoFbHist == [setCalled |-> FALSE, setReturned |-> FALSE, built |-> 0, lookups |-> 0]

\* package contextLogger just loaded: no fallback set, none created
FallbackIdle ==
    /\ fbLogger = "nil"
    /\ fbOnce = "idle"
    /\ fbMu = [writer |-> 0, readers |-> {}]
    /\ fpc = [t \in Threads |-> "idle"]
    /\ fcall = [t \in Threads |-> NoFbCall]
    /\ fbHist = NoFbHist

AuxIdle ==
    WithIdle /\ RegIdle /\ DLQIdle /\ BackoffIdle /\ IndexNameIdle /\ FallbackIdle

NewIndexer == [queue |-> <<>>, closed |-> FALSE, closeCalls |-> 0,
               addCalls |-> 0, addsWhenClosed |-> 0, stopped |-> FALSE]

InitSink ==
    /\ variant \in Variants
    /\ retryMax \in 0..MaxRetry
    /\ variant = "zapx" => retryMax = 0
    /\ metricsOn \in BOOLEAN
    /\ closed = FALSE
    /\ closeOnce = "idle"
    /\ dlqFile \in {"nil", "open"}
    /\ dlq = <<>>
    /\ indexer = NewIndexer
    /\ backend = <<>>
    /\ wsLock = 0
    /\ metrics = NoMetrics
    /\ pc = [t \in Threads |-> "idle"]
    /\ call = [t \in Threads |-> NoCall]
    /\ nOps = 0
    /\ dlqCloses = 0
    /\ closeReturned = FALSE
    /\ opts = NoOptions
    /\ lg = NoLogger
    /\ frame = [t \in Threads |-> NoFrame]
    /\ out = NoOutput
    /\ AuxIdle

NextSink ==
    \/ \E t \in Threads, kind \in {"object", "garbage"} : StartWrite(t, kind)
    \/ \E t \in Threads : WriteGuard(t)
    \/ \E t \in Threads : WriteClosedDLQ(t)
    \/ \E t \in Threads : WriteParseDLQ(t)
    \/ \E t \in Threads : WriteAdd(t)
    \/ \E t \in Threads : WriteAddDLQ(t)
    \/ \E t \in Threads : RetrySleep(t)
    \/ \E t \in Threads : RetryExhausted(t)
    \/ \E t \in Threads : StartSync(t)
    \/ \E t \in Threads : StartClose(t)
    \/ \E t \in Threads : CloseIndexer(t)
    \/ \E t \in Threads : CloseDLQ(t)
    \/ \E t \in Threads : CloseWake(t)
    \/ \E t \in Threads : IndexerCloseDone(t)
    \/ \E t \in Threads : IndexerCloseTimeout(t)
    \/ IndexerFlush

SpecSink == InitSink /\ [][NextSink]_vars

\* ------------------------------------------------- the logger and its sinks
Init ==
    /\ opts \in OptionSet
    /\ variant = "zapx"
    /\ retryMax = 0
    /\ metricsOn = opts.metrics
    /\ closed = FALSE
    /\ closeOnce = "idle"
    /\ dlqFile \in (IF opts.elastic THEN {"nil", "open"} ELSE {"nil"})
    /\ dlq = <<>>
    /\ indexer = NewIndexer
    /\ backend = <<>>
    /\ wsLock = 0
    /\ metrics = NoMetrics
    /\ pc = [t \in Threads |-> "idle"]
    /\ call = [t \in Threads |-> NoCall]
    /\ nOps = 0
    /\ dlqCloses = 0
    /\ closeReturned = FALSE
    /\ lg = NoLogger
    /\ frame = [t \in Threads |-> NoFrame]
    /\ out = NoOutput
    /\ AuxIdle

Next ==
    \/ NewWithOptions
    \/ \E t \in Threads, level \in LogLevels, tick \in BOOLEAN : LogCall(t, level, tick)
    \/ \E t \in Threads : CoreWrite(t)
    \/ \E t \in Threads : CoreWriteES(t)
    \/ \E t \in Threads : WriteAdd(t)
    \/ \E t \in Threads : WriteAddDLQ(t)
    \/ \E t \in Threads : CoreReturnES(t)
    \/ \E t \in Threads, ctx \in {"live", "done"} : LoggerClose(t, ctx)
    \/ \E t \in Threads : CloseSyncES(t)
    \/ \E t \in Threads : IndexerCloseDone(t)
    \/ \E t \in Threads : IndexerCloseTimeout(t)
    \/ \E t \in Threads : CloseAfterSync(t)
    \/ \E t \in Threads : CloserFile(t)
    \/ \E t \in Threads : CloserES(t)
    \/ \E t \in Threads : CloseIndexer(t)
    \/ \E t \in Threads : CloseDLQ(t)
    \/ \E t \in Threads : CloseWake(t)
    \/ \E t \in Threads : CloserESReturn(t)
    \/ \E t \in Threads : CloseFinish(t)
    \/ IndexerFlush

Spec == Init /\ [][Next]_vars

\* ------------------------------------------------- claims about the sink
FinishedWrite(t) ==
    pc[t] = "idle" /\ call[t].op = "write" /\ call[t].result # "pending"

FinishedClose(t) ==
    pc[t] = "idle" /\ call[t].op = "close" /\ call[t].result # "pending"

\* every attempt of the inner write failed with an enqueue error
AllAttemptsAddError(c) ==
    /\ c.inner # <<>>
    /\ \A i \in 1..Len(c.inner) : c.inner[i] = ErrAdd

\* number of DLQ lines with this reason and payload
DLQCount(reason, data) ==
    Cardinality({i \in 1..Len(dlq) :
                   dlq[i] = [reason |-> reason, original_log |-> data]})

\* number of DLQ lines recording this payload, raw or enriched
DLQCountFor(line) ==
    Cardinality({i \in 1..Len(dlq) :
                   dlq[i].original_log \in {line, Enrich(line)}})

TriedWith(c, reason) ==
    {i \in 1..Len(c.tried) : c.tried[i].reason = reason}

ExhaustedCalls ==
    {t \in Threads : FinishedWrite(t) /\ TriedWith(call[t], "retries_exhausted") # {}}

C4_ParseErrorNeverRetried ==
    \A t \in Threads :
        (/\ FinishedWrite(t) /\ Wrapped
         /\ call[t].inner[1] = ErrParse) =>
            /\ Len(call[t].inner) = 1
            /\ call[t].sleeps = 0
            /\ dlqFile = "open" =>
                 /\ DLQCountFor(call[t].line) = 1
                 /\ DLQCount("json_parse_error", call[t].line) = 1

\* C5: with a DLQ path configured (and the DLQ still open), a record whose
\* enqueue attempts all failed ends with a DLQ entry recording it, for every
\* Retry.Max >= 0.
C5_RejectedEnqueueReachesDLQ ==
    \A t \in Threads :
        (/\ FinishedWrite(t)
         /\ call[t].adds >= 1
         /\ call[t].addFails = call[t].adds
         /\ dlqFile = "open") =>
            DLQCountFor(call[t].line) >= 1

\* C6: a Write that starts after Close has returned returns an error at once
\* (no backoff sleep), never calls Add on the batching primitive, and attempts
\* a DLQ append tagged "writer_closed".
C6_WriteAfterCloseRejected ==
    \A t \in Threads :
        (FinishedWrite(t) /\ call[t].afterClose) =>
            /\ call[t].result # "nil"
            /\ call[t].adds = 0
            /\ call[t].sleeps = 0
            /\ TriedWith(call[t], "writer_closed") # {}

\* C7: once Close has been called on the sink, the batching primitive is closed
\* at most once and the DLQ file at most once; when a Close call has returned
\* the single execution has finished: the primitive has been closed exactly
\* once and a configured DLQ file exactly once.
C7_CloseIdempotent ==
    closeOnce # "idle" =>
        /\ indexer.closeCalls <= 1
        /\ dlqCloses <= 1
        /\ \A t \in Threads :
             FinishedClose(t) =>
                /\ closeOnce = "done"
                /\ indexer.closeCalls = 1
                /\ dlqFile # "nil" => dlqCloses = 1

\* ----------------------------------------------- claims about the logger
\* console explicitly disabled, no file sink, no Elasticsearch sink
NoSinkEnabled(o) == o.disableConsole /\ ~o.file /\ ~o.elastic

LevelsValid(o) ==
    parseLevel(o.level).err = "nil" /\ parseLevel(o.stacktraceAt).err = "nil"

BuildErrors == {"invalid log level", "invalid stacktrace level",
                "failed to auto-register metrics", "failed to build cores"}

\* C1: once NewWithOptions has run, a configuration with no sink enabled has
\* produced no logger (no fallback), and -- its levels being valid and nothing
\* else failing -- the error is "no log sinks configured"; a configuration with
\* an enabled sink fails only when a level is invalid or a build step fails.
C1_NoSinksFails ==
    lg.state # "none" =>
        /\ NoSinkEnabled(opts) => lg.state = "failed"
        /\ (NoSinkEnabled(opts) /\ LevelsValid(opts) /\ ~opts.metrics) =>
              lg.err = ErrNoSinks
        /\ (~NoSinkEnabled(opts) /\ lg.state = "failed") => lg.err \in BuildErrors

\* the sink has the record: the console and the file hold it; the
\* Elasticsearch writer took it (its Write returned nil)
Received(core, id) ==
    core \in {"console", "file"} => \E j \in 1..Len(out[core]) : out[core][j] = id

\* C2: sink isolation.  Of a record that passed the level check and the
\* sampler, every core before the one the log call is at has been
\* written, whatever the earlier cores returned; when the log call has returned,
\* every core of the logger has been written, and every sink whose own write
\* did not fail has the record.
C2_SinkIsolation ==
    \A t \in Threads :
        (/\ frame[t].op = "log"
         /\ LevelRank(frame[t].level) >= LevelRank(lg.lvl)
         /\ ~frame[t].dropped) =>
            /\ Len(frame[t].res) = frame[t].i - 1
            /\ frame[t].result = "returned" =>
                 /\ Len(frame[t].res) = Len(lg.cores)
                 /\ \A k \in 1..Len(lg.cores) :
                      frame[t].res[k] = "nil" => Received(lg.cores[k], frame[t].id)

\* C2 witness: a log call on a logger with several sinks has returned; the
\* write to an earlier sink failed and a later sink has the record
C2_Witness ==
    \E t \in Threads :
        /\ frame[t].op = "log" /\ frame[t].result = "returned"
        /\ Len(lg.cores) >= 2
        /\ Len(frame[t].res) = Len(lg.cores)
        /\ \E j, k \in 1..Len(lg.cores) :
             /\ j < k
             /\ frame[t].res[j] = ErrWrite
             /\ frame[t].res[k] = "nil"
             /\ lg.cores[k] = "file"
             /\ \E n \in 1..Len(out.file) : out.file[n] = frame[t].id

\* C8: over any number of Close calls on a logger the pipeline is synced at
\* most once and each registered closer is invoked at most once.
C8_CloseGuarded ==
    /\ lg.syncCalls <= 1
    /\ \A k \in Closers : lg.closerCalls[k] <= 1

\* the error Close has to return after these closer results: the last non-nil
LastNonNil(res) ==
    LET E == {k \in 1..Len(res) : res[k].err # "nil"} IN
    IF E = {} THEN "nil"
    ELSE res[CHOOSE k \in E : \A j \in E : j <= k].err

\* C9: a Close that has returned has invoked every registered closer, in
\* registration order, and has returned the last non-nil closer error (nil if
\* there is none).
C9_CloseRunsEveryCloser ==
    \A t \in Threads :
        (frame[t].op = "close" /\ frame[t].result # "pending") =>
            /\ Len(frame[t].res) = Len(lg.closers)
            /\ \A k \in 1..Len(frame[t].res) : frame[t].res[k].closer = lg.closers[k]
            /\ frame[t].result = LastNonNil(frame[t].res)

\* C10: a Logger.Close whose caller context is expired or cancelled waits for
\* in-flight flushes of the batching primitive only under that caller context,
\* never under a context of the writer's own.
C10_CloseHonoursDeadline ==
    \A t \in Threads :
        (/\ frame[t].op = "close" /\ frame[t].result = "pending"
         /\ frame[t].ctx = "done"
         /\ pc[t] = "ix_wait"
         /\ indexer.queue # <<>>) =>
            call[t].ctx = "caller"

\* ------------------------------------------ claims about flushing on Close
QueuedIds == {indexer.queue[i].msg : i \in 1..Len(indexer.queue)}

SinkLoggerIdle ==
    /\ variant = "zapx"
    /\ retryMax = 0
    /\ metricsOn = FALSE
    /\ closed = FALSE
    /\ closeOnce = "idle"
    /\ dlqFile = "nil"
    /\ dlq = <<>>
    /\ indexer = NewIndexer
    /\ backend = <<>>
    /\ wsLock = 0
    /\ metrics = NoMetrics
    /\ pc = [t \in Threads |-> "idle"]
    /\ call = [t \in Threads |-> NoCall]
    /\ nOps = 0
    /\ dlqCloses = 0
    /\ closeReturned = FALSE
    /\ opts = NoOptions
    /\ lg = NoLogger
    /\ frame = [t \in Threads |-> NoFrame]
    /\ out = NoOutput

MaxHandles == 4
MaxEmitted == 2

FieldKeys == {"req_id", "component"}

\* the logger NewWithOptions returned: no parent, no ambient field
RootHandle == [parent |-> 0, added |-> <<>>, fields |-> <<>>]

\* (mutant) a With that appends to the receiver's own field list before
\* handing it to the derived logger
WithInPlace(hs, p, fs) ==
    LET grown == [hs EXCEPT ![p].fields = @ \o fs] IN
    Append(grown, [parent |-> p, added |-> fs, fields |-> grown[p].fields])

\* zapAdapter.With: a new zapAdapter around l.zl.With(fields), which clones
\* the core and its encoder; the receiver is left as it was
With(hs, p, fs) ==
    Append(hs, [parent |-> p, added |-> fs, fields |-> hs[p].fields \o fs])

DoWith(p, fs) ==
    /\ p <= Len(handles)
    /\ Len(handles) < MaxHandles
    /\ handles' = With(handles, p, fs)
    /\ UNCHANGED <<outsideWith, emitted>>

\* zapAdapter.WithContext: the receiver itself when the context carries no
\* known key, l.With(fs) otherwise
DoWithContext(p, fs) ==
    /\ p <= Len(handles)
    /\ Len(handles) < MaxHandles
    /\ handles' = IF Len(fs) = 0 THEN handles ELSE With(handles, p, fs)
    /\ UNCHANGED <<outsideWith, emitted>>

\* a record logged through handle h carries the handle's ambient fields
DoLog(h) ==
    /\ h <= Len(handles)
    /\ Len(emitted) < MaxEmitted
    /\ emitted' = Append(emitted, [via |-> h, fields |-> handles[h].fields])
    /\ UNCHANGED <<outsideWith, handles>>

\* what WithContext extracts: nothing, the request id, or the trace and span ids
ContextFields == {<<>>, <<"request_id">>, <<"trace_id", "span_id">>}

InitWith ==
    /\ SinkLoggerIdle
    /\ RegIdle
    /\ DLQIdle
    /\ handles = <<RootHandle>>
    /\ emitted = <<>>
    /\ BackoffIdle
    /\ IndexNameIdle
    /\ FallbackIdle

NextWith ==
    \/ \E p \in 1..MaxHandles, k \in FieldKeys : DoWith(p, <<k>>)
    \/ \E p \in 1..MaxHandles, fs \in ContextFields : DoWithContext(p, fs)
    \/ \E h \in 1..MaxHandles : DoLog(h)

SpecWith == InitWith /\ [][NextWith]_vars

\* the fields a handle was given along its chain of With calls, root first
RECURSIVE Chain(_)
Chain(i) ==
    IF i = 0 THEN <<>> ELSE Chain(handles[i].parent) \o handles[i].added

\* C12: With never mutates its receiver.  Every logger, however many loggers
\* were derived from it, carries exactly the fields added along its own chain
\* of With calls (so a parent carries none of its children's fields and a
\* derived logger none of a sibling's), and every record carries exactly the
\* ambient fields of the logger it was logged through.
C12_WithNeverMutates ==
    /\ \A i \in 1..Len(handles) : handles[i].fields = Chain(i)
    /\ \A k \in 1..Len(emitted) : emitted[k].fields = Chain(emitted[k].via)

\* C12 witness: a parent with two derived siblings; a record was logged
\* through the parent after both were derived, and one through a sibling
C12_Witness ==
    \E a, b \in 1..Len(handles) :
        /\ a # b
        /\ handles[a].parent = handles[b].parent
        /\ handles[a].parent # 0
        /\ handles[a].added # handles[b].added
        /\ \E j, k \in 1..Len(emitted) :
             /\ emitted[j].via = handles[a].parent
             /\ emitted[k].via = a

\* the record has reached sink `core`: it is in the console or file output, or
\* it is queued in the indexer, in the backend, or in the dead-letter queue
Reached(core, id) ==
    IF core \in {"console", "file"}
    THEN \E j \in 1..Len(out[core]) : out[core][j] = id
    ELSE \/ \E j \in 1..Len(indexer.queue) : indexer.queue[j].msg = id
         \/ \E j \in 1..Len(backend) : backend[j].msg = id
         \/ DLQCountFor([id |-> id, kind |-> "object"]) > 0

\* the cores of the logger a log call has written to
CoresWritten(t) == Len(frame[t].res)

\* C13: sampling is applied once, above the fan-out.  A record the sampler
\* drops is written to no core and reaches no sink, and its log call returns
\* at once; a record the sampler keeps is written to every core of the logger
\* by the time its log call returns.  So a returned log call has written to
\* all the cores or to none, and to none exactly when the sampler dropped it.
C13_SamplingAboveFanout ==
    \A t \in Threads :
        (frame[t].op = "log" /\ LevelRank(frame[t].level) >= LevelRank(lg.lvl)) =>
            /\ frame[t].dropped =>
                 /\ opts.sampling
                 /\ frame[t].result = "returned"
                 /\ CoresWritten(t) = 0
                 /\ \A k \in 1..Len(lg.cores) : ~Reached(lg.cores[k], frame[t].id)
            /\ (frame[t].result = "returned" /\ ~frame[t].dropped) =>
                 CoresWritten(t) = Len(lg.cores)

\* C13 witness: on a sampled logger with several sinks one record was kept
\* and reached the console and the file, and a later one was dropped
C13_Witness ==
    \E t, u \in Threads :
        /\ Len(lg.cores) >= 2
        /\ frame[t].op = "log" /\ frame[t].result = "returned" /\ ~frame[t].dropped
        /\ CoresWritten(t) = Len(lg.cores)
        /\ \E k \in 1..Len(lg.cores) : Reached(lg.cores[k], frame[t].id)
        /\ frame[u].op = "log" /\ frame[u].result = "returned" /\ frame[u].dropped
        /\ frame[u].level = frame[t].level

\* every logger call made so far is a log call that has returned and is still
\* the last call of its goroutine
AllLogsReturned ==
    /\ nOps = Cardinality({t \in Threads : frame[t].op = "log"})
    /\ \A t \in Threads : frame[t].op = "log" => frame[t].result = "returned"

\* the position of sink S among the cores of the logger (0: not a core)
CoreIndex(S) ==
    IF \E k \in 1..Len(lg.cores) : lg.cores[k] = S
    THEN CHOOSE k \in 1..Len(lg.cores) : lg.cores[k] = S
    ELSE 0

\* the log calls whose record reached sink S, by the outcome of S's write
WritesOf(S, ok) ==
    {t \in Threads :
        /\ frame[t].op = "log"
        /\ CoreIndex(S) \in 1..Len(frame[t].res)
        /\ (frame[t].res[CoreIndex(S)] = "nil") = ok}

\* C14: with metrics enabled, each sink accounts for each record that reaches
\* it exactly once.  logs_written_total{level,S} counts the records of that
\* level S wrote successfully, logs_dropped_total{S,"write_error"} counts the
\* records whose write to S failed, and no written series of a sink that is
\* not a core of the logger changes.
C14_PerSinkAccounting ==
    (metricsOn /\ lg.state = "built" /\ AllLogsReturned) =>
        \A S \in Sinks :
            /\ \A l \in Levels :
                 metrics.written[<<l, S>>] =
                     Cardinality({t \in WritesOf(S, TRUE) : frame[t].level = l})
            /\ metrics.dropped[<<S, "write_error">>] = Cardinality(WritesOf(S, FALSE))

\* ------------------------------------------------------- the factory registry
MaxRegs == 3
MaxSnaps == 2

Registering ==
    {t \in Threads : rpc[t] \in {"r_wait", "r_locked", "r_read", "r_appended"}}
Snapshotting == {t \in Threads : rpc[t] \in {"s_wait", "s_locked", "s_made"}}

\* the descriptor the next RegisterFactory call registers: a new one each call
NextFactory == Cardinality(regDone) + Cardinality(Registering) + 1

\* (mutant) RegisterFactory appends without taking the mutex
WriteLockNotTaken(mu) == TRUE

\* factoriesMu.Lock() returns when no writer and no reader holds the mutex
WriteLockFree(mu) == mu.writer = 0 /\ mu.readers = {}

\* factoriesMu.RLock() returns when no writer holds the mutex
ReadLockFree(mu) == mu.writer = 0

\* a goroutine calls RegisterFactory(f)
RegisterFactory(t) ==
    /\ rpc[t] = "idle"
    /\ NextFactory <= MaxRegs
    /\ rcall' = [rcall EXCEPT ![t] = [NoRegCall EXCEPT !.op = "register",
                                                      !.f = NextFactory]]
    /\ rpc' = [rpc EXCEPT ![t] = "r_wait"]
    /\ UNCHANGED <<outsideReg, factories, factoriesMu, regOrder, regDone, snapshots>>

\* factoriesMu.Lock()
RegisterLock(t) ==
    /\ rpc[t] = "r_wait"
    /\ WriteLockFree(factoriesMu)
    /\ factoriesMu' = [factoriesMu EXCEPT !.writer = t]
    /\ rpc' = [rpc EXCEPT ![t] = "r_locked"]
    /\ UNCHANGED <<outsideReg, factories, rcall, regOrder, regDone, snapshots>>

\* append(factories, f) reads the slice ...
RegisterRead(t) ==
    /\ rpc[t] = "r_locked"
    /\ rcall' = [rcall EXCEPT ![t].local = factories]
    /\ rpc' = [rpc EXCEPT ![t] = "r_read"]
    /\ UNCHANGED <<outsideReg, factories, factoriesMu, regOrder, regDone, snapshots>>

\* ... and the assignment stores the slice with f appended
RegisterAppend(t) ==
    /\ rpc[t] = "r_read"
    /\ factories' = Append(rcall[t].local, rcall[t].f)
    /\ regOrder' = Append(regOrder, rcall[t].f)
    /\ rpc' = [rpc EXCEPT ![t] = "r_appended"]
    /\ UNCHANGED <<outsideReg, factoriesMu, rcall, regDone, snapshots>>

\* the deferred factoriesMu.Unlock(); RegisterFactory returns
RegisterUnlock(t) ==
    /\ rpc[t] = "r_appended"
    /\ factoriesMu' = [factoriesMu EXCEPT !.writer = 0]
    /\ regDone' = regDone \cup {rcall[t].f}
    /\ rpc' = [rpc EXCEPT ![t] = "idle"]
    /\ UNCHANGED <<outsideReg, factories, rcall, regOrder, snapshots>>

\* a goroutine calls Factories()
Factories(t) ==
    /\ rpc[t] = "idle"
    /\ Len(snapshots) + Cardinality(Snapshotting) < MaxSnaps
    /\ rcall' = [rcall EXCEPT ![t] = [NoRegCall EXCEPT !.op = "snapshot",
                                                      !.before = regDone]]
    /\ rpc' = [rpc EXCEPT ![t] = "s_wait"]
    /\ UNCHANGED <<outsideReg, factories, factoriesMu, regOrder, regDone, snapshots>>

\* factoriesMu.RLock()
FactoriesRLock(t) ==
    /\ rpc[t] = "s_wait"
    /\ ReadLockFree(factoriesMu)
    /\ factoriesMu' = [factoriesMu EXCEPT !.readers = @ \cup {t}]
    /\ rpc' = [rpc EXCEPT ![t] = "s_locked"]
    /\ UNCHANGED <<outsideReg, factories, rcall, regOrder, regDone, snapshots>>

\* result := make([]CoreFactory, len(factories))
FactoriesMake(t) ==
    /\ rpc[t] = "s_locked"
    /\ rcall' = [rcall EXCEPT ![t].n = Len(factories)]
    /\ rpc' = [rpc EXCEPT ![t] = "s_made"]
    /\ UNCHANGED <<outsideReg, factories, factoriesMu, regOrder, regDone, snapshots>>

\* copy(dst, src): min(len(dst), len(src)) elements; the rest of dst stays nil
Copy(n, src) == [i \in 1..n |-> IF i <= Len(src) THEN src[i] ELSE 0]

\* copy(result, factories)
FactoriesCopy(t) ==
    /\ rpc[t] = "s_made"
    /\ snapshots' = Append(snapshots, [items |-> Copy(rcall[t].n, factories),
                                       before |-> rcall[t].before])
    /\ rpc' = [rpc EXCEPT ![t] = "s_copied"]
    /\ UNCHANGED <<outsideReg, factories, factoriesMu, rcall, regOrder, regDone>>

\* the deferred factoriesMu.RUnlock(); Factories returns the copy
FactoriesRUnlock(t) ==
    /\ rpc[t] = "s_copied"
    /\ factoriesMu' = [factoriesMu EXCEPT !.readers = @ \ {t}]
    /\ rpc' = [rpc EXCEPT ![t] = "idle"]
    /\ UNCHANGED <<outsideReg, factories, rcall, regOrder, regDone, snapshots>>

InitRegistry ==
    /\ SinkLoggerIdle
    /\ WithIdle
    /\ RegIdle
    /\ DLQIdle
    /\ BackoffIdle
    /\ IndexNameIdle
    /\ FallbackIdle

NextRegistry ==
    \/ \E t \in Threads : RegisterFactory(t)
    \/ \E t \in Threads : RegisterLock(t)
    \/ \E t \in Threads : RegisterRead(t)
    \/ \E t \in Threads : RegisterAppend(t)
    \/ \E t \in Threads : RegisterUnlock(t)
    \/ \E t \in Threads : Factories(t)
    \/ \E t \in Threads : FactoriesRLock(t)
    \/ \E t \in Threads : FactoriesMake(t)
    \/ \E t \in Threads : FactoriesCopy(t)
    \/ \E t \in Threads : FactoriesRUnlock(t)

SpecRegistry == InitRegistry /\ [][NextRegistry]_vars

IsPrefix(a, b) == Len(a) <= Len(b) /\ \A i \in 1..Len(a) : a[i] = b[i]

Elems(a) == {a[i] : i \in 1..Len(a)}

NoDuplicates(a) == \A i, j \in 1..Len(a) : a[i] = a[j] => i = j

\* C15: the registry loses and reorders nothing.  The registry holds the
\* registered descriptors once each, in the order their registrations ran;
\* every snapshot is a prefix of the registry, without duplicates, and holds
\* every descriptor whose registration had returned when the snapshot call
\* began; every earlier snapshot is a prefix of every later one.
C15_RegistryAppendOnly ==
    /\ factories = regOrder
    /\ NoDuplicates(factories)
    /\ regDone \subseteq Elems(factories)
    /\ \A i \in 1..Len(snapshots) :
         /\ IsPrefix(snapshots[i].items, factories)
         /\ NoDuplicates(snapshots[i].items)
         /\ snapshots[i].before \subseteq Elems(snapshots[i].items)
         /\ \A j \in 1..Len(snapshots) :
              i < j => IsPrefix(snapshots[i].items, snapshots[j].items)

\* C15 witness: two snapshots were built between registrations, the later one
\* longer than the earlier; a registration ran after both, and two concurrent
\* RegisterFactory calls took the mutex in the other order than they were made
C15_Witness ==
    /\ Len(snapshots) = 2
    /\ Len(snapshots[1].items) >= 1
    /\ Len(snapshots[2].items) > Len(snapshots[1].items)
    /\ Len(factories) = MaxRegs
    /\ Len(factories) > Len(snapshots[2].items)
    /\ \E i, j \in 1..Len(factories) : i < j /\ factories[i] > factories[j]

\* C16: in the dev and in the prod environment a built logger has a console
\* core whenever the console is not explicitly disabled, whether or not a file
\* or an Elasticsearch sink is configured, and when the console is explicitly
\* disabled nothing is written to standard output.
C16_ConsoleUnlessDisabled ==
    (lg.state = "built" /\ opts.env \in {"dev", "prod"}) =>
        /\ ~opts.disableConsole => \E k \in 1..Len(lg.cores) : lg.cores[k] = "console"
        /\ opts.disableConsole => out.console = <<>>

\* ------------------------------------------------ the DLQ file, byte by byte
MaxLineLen == 2
MaxAppends == 2

\* the bytes of a line: a plain character, a quote, a line feed, and a byte
\* that is not valid UTF-8
Bytes == {"a", "\"", "\n", "xFF"}

\* what an invalid byte becomes in a Go string that passes through json.Marshal
ReplacementChar == "uFFFD"

RawLines == UNION {[1..n -> Bytes] : n \in 1..MaxLineLen}

\* the reasons whose callers hand the original line to writeToDLQ
LineReasons == {"writer_closed", "json_parse_error", "retries_exhausted"}

\* json.Marshal of one byte of a string: quotes and control characters are
\* escaped, an invalid byte is written as the escape of U+FFFD
EscapeByte(b) ==
    CASE b = "\"" -> <<"\\", "\"">>
      [] b = "\n" -> <<"\\", "n">>
      [] b = "xFF" -> <<"\\", "ufffd">>
      [] OTHER -> <<b>>

RECURSIVE EscapeString(_)
EscapeString(str) ==
    IF str = <<>> THEN <<>> ELSE EscapeByte(Head(str)) \o EscapeString(Tail(str))

\* json.Marshal(dlqEntry): the keys of a map are written in sorted order
MarshalEntry(data, reason) ==
    <<"{", "original_log:", "\"">> \o EscapeString(data)
        \o <<"\"", ",", "reason:", reason, ",", "timestamp:", "T", "}">>

\* a JSON parser's reading of the character after a backslash
Unescape(c) ==
    CASE c = "\"" -> "\""
      [] c = "n" -> "\n"
      [] c = "ufffd" -> ReplacementChar
      [] OTHER -> "invalid"

\* a JSON parser reading a string body from position i up to the closing quote
RECURSIVE ScanString(_, _, _)
ScanString(line, i, acc) ==
    IF i > Len(line) THEN [ok |-> FALSE, str |-> acc, next |-> i]
    ELSE IF line[i] = "\"" THEN [ok |-> TRUE, str |-> acc, next |-> i + 1]
    ELSE IF line[i] = "\\"
    THEN IF i + 1 > Len(line) \/ Unescape(line[i + 1]) = "invalid"
         THEN [ok |-> FALSE, str |-> acc, next |-> i]
         ELSE ScanString(line, i + 2, Append(acc, Unescape(line[i + 1])))
    ELSE IF line[i] = "\n" THEN [ok |-> FALSE, str |-> acc, next |-> i]
    ELSE ScanString(line, i + 1, Append(acc, line[i]))

\* a JSON parser reading one line of the DLQ file as one complete object with
\* the fields original_log, reason and timestamp
ParseEntry(line) ==
    IF Len(line) < 3 \/ SubSeq(line, 1, 3) # <<"{", "original_log:", "\"">>
    THEN [ok |-> FALSE, original_log |-> <<>>, reason |-> "none"]
    ELSE LET str == ScanString(line, 4, <<>>)
             rest == SubSeq(line, str.next, Len(line)) IN
         IF /\ str.ok
            /\ Len(rest) = 7
            /\ <<rest[1], rest[2], rest[4], rest[5], rest[6], rest[7]>> =
                   <<",", "reason:", ",", "timestamp:", "T", "}">>
         THEN [ok |-> TRUE, original_log |-> str.str, reason |-> rest[3]]
         ELSE [ok |-> FALSE, original_log |-> <<>>, reason |-> "none"]

\* the complete (line-feed terminated) lines of a file
RECURSIVE SplitLines(_, _)
SplitLines(bytes, cur) ==
    IF bytes = <<>> THEN <<>>
    ELSE IF Head(bytes) = "\n" THEN <<cur>> \o SplitLines(Tail(bytes), <<>>)
    ELSE SplitLines(Tail(bytes), Append(cur, Head(bytes)))

\* a goroutine calls writeToDLQ(data, reason); the file is open
DLQCall(t, data, reason) ==
    /\ dpc[t] = "idle"
    /\ Len(dlqAppends) + Cardinality({u \in Threads : dpc[u] \in {"d_wait", "d_locked"}})
           < MaxAppends
    /\ dcall' = [dcall EXCEPT ![t] = [data |-> data, reason |-> reason]]
    /\ dpc' = [dpc EXCEPT ![t] = "d_wait"]
    /\ UNCHANGED <<outsideDLQ, dlqBytes, dlqMutex, dlqAppends>>

\* w.dlqMutex.Lock()
DLQLock(t) ==
    /\ dpc[t] = "d_wait"
    /\ dlqMutex = 0
    /\ dlqMutex' = t
    /\ dpc' = [dpc EXCEPT ![t] = "d_locked"]
    /\ UNCHANGED <<outsideDLQ, dlqBytes, dcall, dlqAppends>>

\* w.dlqFile.Write(dlqData)
DLQWriteEntry(t) ==
    /\ dpc[t] = "d_locked"
    /\ dlqBytes' = dlqBytes \o MarshalEntry(dcall[t].data, dcall[t].reason)
    /\ dlqAppends' = Append(dlqAppends, dcall[t])
    /\ dpc' = [dpc EXCEPT ![t] = "d_entry"]
    /\ UNCHANGED <<outsideDLQ, dlqMutex, dcall>>

\* w.dlqFile.Write([]byte("\n"))
DLQWriteNewline(t) ==
    /\ dpc[t] = "d_entry"
    /\ dlqBytes' = Append(dlqBytes, "\n")
    /\ dpc' = [dpc EXCEPT ![t] = "d_newline"]
    /\ UNCHANGED <<outsideDLQ, dlqMutex, dcall, dlqAppends>>

\* w.dlqFile.Sync() and the deferred w.dlqMutex.Unlock()
DLQUnlock(t) ==
    /\ dpc[t] = "d_newline"
    /\ dlqMutex' = 0
    /\ dpc' = [dpc EXCEPT ![t] = "idle"]
    /\ UNCHANGED <<outsideDLQ, dlqBytes, dcall, dlqAppends>>

InitDLQ ==
    /\ SinkLoggerIdle
    /\ WithIdle
    /\ RegIdle
    /\ DLQIdle
    /\ BackoffIdle
    /\ IndexNameIdle
    /\ FallbackIdle

NextDLQ ==
    \/ \E t \in Threads, data \in RawLines, reason \in LineReasons : DLQCall(t, data, reason)
    \/ \E t \in Threads : DLQLock(t)
    \/ \E t \in Threads : DLQWriteEntry(t)
    \/ \E t \in Threads : DLQWriteNewline(t)
    \/ \E t \in Threads : DLQUnlock(t)

SpecDLQ == InitDLQ /\ [][NextDLQ]_vars

\* C17: DLQ round-trip.  Under any interleaving of concurrent appends, the
\* k-th complete line of the DLQ file parses as one JSON object with
\* timestamp, reason and original_log; its reason is the reason of the k-th
\* entry written and its original_log is, byte for byte, the line that entry
\* was written for.
C17_DLQRoundTrip ==
    LET lines == SplitLines(dlqBytes, <<>>) IN
    /\ Len(lines) <= Len(dlqAppends)
    /\ \A k \in 1..Len(lines) :
         /\ ParseEntry(lines[k]).ok
         /\ ParseEntry(lines[k]).reason = dlqAppends[k].reason
         /\ ParseEntry(lines[k]).original_log = dlqAppends[k].data

\* ------------------------------------------------------- the retry backoff
\* durations are whole nanoseconds (time.Duration); rand.Float64() is drawn
\* from the grid 0, 1/JitterSteps, ..., (JitterSteps-1)/JitterSteps
MaxDuration == 4
MaxAttempts == 3
JitterSteps == 4

Durations == (0 - 1)..MaxDuration

RetryConfigs == [Max : 1..MaxAttempts, BackoffMin : Durations, BackoffMax : Durations]

RECURSIVE Pow2(_)
Pow2(a) == IF a = 0 THEN 1 ELSE 2 * Pow2(a - 1)

\* time.Duration(x) of the float x = n / d: the fraction is dropped
Truncate(n, d) == IF n >= 0 THEN n \div d ELSE 0 - ((0 - n) \div d)

\* (mutant) the cap at BackoffMax is missing
UnjitteredUncapped(cfg, attempt) == cfg.BackoffMin * Pow2(attempt)

\* calculateBackoff before the jitter: BackoffMin * 2^attempt, capped at
\* BackoffMax
Unjittered(cfg, attempt) ==
    LET backoff == cfg.BackoffMin * Pow2(attempt) IN
    IF backoff > cfg.BackoffMax THEN cfg.BackoffMax ELSE backoff

\* calculateBackoff: backoff + backoff * 0.25 * (rand.Float64()*2 - 1), with
\* rand.Float64() = k / JitterSteps, converted to a time.Duration
calculateBackoff(cfg, attempt, k) ==
    LET backoff == Unjittered(cfg, attempt) IN
    Truncate(backoff * (3 * JitterSteps + 2 * k), 4 * JitterSteps)

\* retryableWriter.Write: time.Sleep(rw.calculateBackoff(attempt)) after a
\* failed attempt that is not the last
BackoffSleep(k) ==
    /\ boAttempt < retryConfig.Max
    /\ boLast' = [attempt |-> boAttempt,
                  unjittered |-> Unjittered(retryConfig, boAttempt),
                  slept |-> calculateBackoff(retryConfig, boAttempt, k),
                  before |-> boLast.unjittered,
                  any |-> boAttempt > 0]
    /\ boAttempt' = boAttempt + 1
    /\ UNCHANGED <<outsideBackoff, retryConfig>>

InitBackoff ==
    /\ SinkLoggerIdle
    /\ WithIdle
    /\ RegIdle
    /\ DLQIdle
    /\ retryConfig \in RetryConfigs
    /\ boAttempt = 0
    /\ boLast = NoBackoff
    /\ IndexNameIdle
    /\ FallbackIdle

NextBackoff == \E k \in 0..(JitterSteps - 1) : BackoffSleep(k)

SpecBackoff == InitBackoff /\ [][NextBackoff]_vars

Abs(x) == IF x >= 0 THEN x ELSE 0 - x

MinOf(x, y) == IF x <= y THEN x ELSE y

\* the backoff bounds of one computed backoff; slack is what the slept
\* duration may miss the 25% band by, in quarters of a nanosecond
BackoffBounds(slack) ==
    boAttempt > 0 =>
        /\ boLast.unjittered =
               MinOf(retryConfig.BackoffMin * Pow2(boLast.attempt), retryConfig.BackoffMax)
        /\ boLast.any => boLast.before <= boLast.unjittered
        /\ boLast.unjittered <= retryConfig.BackoffMax
        /\ 4 * Abs(boLast.slept - boLast.unjittered) <= Abs(boLast.unjittered) + slack

\* C18 (as stated): for every attempt and every retry configuration the
\* un-jittered backoff equals min(BackoffMin * 2^a, BackoffMax), does not
\* decrease from one attempt to the next, never exceeds BackoffMax, and the
\* duration slept lies within 25% of it.
C18_BackoffBounds == BackoffBounds(0)

\* C18 (amended): the same for every retry configuration whose BackoffMin is
\* positive, the duration slept being the jittered value cut to whole
\* nanoseconds: it misses the 25% band by less than one nanosecond.
C18_BackoffBoundsAmended == retryConfig.BackoffMin > 0 => BackoffBounds(3)

\* C18 witness: with a positive BackoffMin below BackoffMax, the backoff that
\* was doubled at the attempt before is now capped at BackoffMax, and the
\* jitter moved the duration slept off the un-jittered value
C18_Witness ==
    /\ retryConfig.BackoffMin > 0
    /\ retryConfig.BackoffMin < retryConfig.BackoffMax
    /\ boLast.attempt >= 2
    /\ boLast.before > retryConfig.BackoffMin
    /\ boLast.before < boLast.unjittered
    /\ boLast.unjittered = retryConfig.BackoffMax
    /\ retryConfig.BackoffMin * Pow2(boLast.attempt) > retryConfig.BackoffMax
    /\ boLast.slept # boLast.unjittered

\* the records of a sequence of record ids are in the order of the log calls
\* of each goroutine: of two records logged by the same goroutine, the one
\* logged first comes first
InCallOrder(ids) ==
    \A i, j \in 1..Len(ids) :
        (i < j /\ out.by[ids[i]] = out.by[ids[j]]) => ids[i] < ids[j]

DocIds(docs) == [i \in 1..Len(docs) |-> docs[i].msg]

\* C19: per-sink ordering.  The records one goroutine logged through the
\* logger are on the console, in the file, in the indexer's queue and in the
\* Elasticsearch backend in the order in which it made the log calls.
C19_PerSinkOrdering ==
    /\ InCallOrder(out.console)
    /\ InCallOrder(out.file)
    /\ InCallOrder(DocIds(indexer.queue))
    /\ InCallOrder(DocIds(backend))

\* C19 witness: one goroutine logged two records and both are, in the order
\* logged, in the Elasticsearch backend and in the file
C19_Witness ==
    /\ Len(backend) = 2
    /\ Len(out.file) = 2
    /\ out.by[backend[1].msg] = out.by[backend[2].msg]
    /\ backend[1].msg < backend[2].msg
    /\ out.file[1] < out.file[2]

\* ------------------------------- the fan-out over the registered factories
\* The logger whose cores come from the factory registry: every enabled
\* factory's core, in the order of the registry snapshot, combined by
\* zapcore.NewTee.  The Elasticsearch core is ElasticFactory.Build's, with the
\* retry wrapper behind zapcore.Lock.
FactoryNames == {"console", "file", "elasticsearch"}

\* the orders in which the factories can have been registered
RegistryOrders ==
    {f \in [1..Cardinality(FactoryNames) -> FactoryNames] :
        \A i, j \in 1..Cardinality(FactoryNames) : f[i] = f[j] => i = j}

FanoutOptions ==
    [env |-> "prod", level |-> "warn", stacktraceAt |-> "error",
     disableConsole |-> FALSE, file |-> TRUE, elastic |-> TRUE,
     metrics |-> FALSE, sampling |-> FALSE]

RECURSIVE ClosersOf(_)
ClosersOf(cores) ==
    IF cores = <<>> THEN <<>>
    ELSE IF Head(cores) \in Closers THEN <<Head(cores)>> \o ClosersOf(Tail(cores))
    ELSE ClosersOf(Tail(cores))

\* the composer: one core per enabled factory, in registry order
ComposeFromRegistry(order) ==
    /\ lg.state = "none"
    /\ lg' = [NoLogger EXCEPT !.state = "built",
                              !.lvl = parseLevel(opts.level).lvl,
                              !.cores = order,
                              !.closers = ClosersOf(order)]
    /\ UNCHANGED <<auxVars, cfgVars, esVars, thVars, histVars, opts, frame, out>>

InitFanout ==
    /\ opts = FanoutOptions
    /\ variant = "corefactories"
    /\ retryMax \in 1..MaxRetry
    /\ metricsOn = FALSE
    /\ closed = FALSE
    /\ closeOnce = "idle"
    /\ dlqFile = "open"
    /\ dlq = <<>>
    /\ indexer = NewIndexer
    /\ backend = <<>>
    /\ wsLock = 0
    /\ metrics = NoMetrics
    /\ pc = [t \in Threads |-> "idle"]
    /\ call = [t \in Threads |-> NoCall]
    /\ nOps = 0
    /\ dlqCloses = 0
    /\ closeReturned = FALSE
    /\ lg = NoLogger
    /\ frame = [t \in Threads |-> NoFrame]
    /\ out = NoOutput
    /\ AuxIdle

NextFanout ==
    \/ \E order \in RegistryOrders : ComposeFromRegistry(order)
    \/ \E t \in Threads, level \in LogLevels, tick \in BOOLEAN : LogCall(t, level, tick)
    \/ \E t \in Threads : CoreWrite(t)
    \/ \E t \in Threads : CoreWriteES(t)
    \/ \E t \in Threads : WriteGuard(t)
    \/ \E t \in Threads : WriteAdd(t)
    \/ \E t \in Threads : RetrySleep(t)
    \/ \E t \in Threads : RetryExhausted(t)
    \/ \E t \in Threads : CoreReturnES(t)
    \/ IndexerFlush

SpecFanout == InitFanout /\ [][NextFanout]_vars

\* the goroutines sleeping in the retry wrapper's backoff
InBackoff == {u \in Threads : pc[u] = "w_sleep"}

\* the console and file cores a log call has still to write
LocalCoresAhead(t) ==
    {k \in 1..Len(lg.cores) : lg.cores[k] \in {"console", "file"} /\ k > frame[t].i}

\* the log call waits for the Elasticsearch write lock, held by another goroutine
WaitsForES(t) ==
    /\ pc[t] = "l_core"
    /\ lg.cores[frame[t].i] = "elasticsearch"
    /\ wsLock \notin {0, t}

MaxPatternLen == 4
MaxServiceLen == 2

Segments == {"<service>", "%Y", "%m", "%d", "-"}

ServiceChars == {"a", "%", "Y"}

IndexPatterns == UNION {[1..n -> Segments] : n \in 0..MaxPatternLen}

ServiceNames == UNION {[1..n -> ServiceChars] : n \in 0..MaxServiceLen}

Dates == {[year |-> 2026, month |-> 1, day |-> 9],
          [year |-> 2026, month |-> 12, day |-> 31]}

\* the characters of one segment of a pattern
SegmentChars(seg) ==
    CASE seg = "%Y" -> <<"%", "Y">>
      [] seg = "%m" -> <<"%", "m">>
      [] seg = "%d" -> <<"%", "d">>
      [] OTHER -> <<seg>>

RECURSIVE PatternString(_)
PatternString(segs) ==
    IF segs = <<>> THEN <<>>
    ELSE SegmentChars(Head(segs)) \o PatternString(Tail(segs))

\* newElasticsearchWriter: config.Index, or fmt.Sprintf("%s-%%Y.%%m.%%d", service)
\* when it is empty
DefaultPattern(svc) == svc \o <<"-", "%", "Y", ".", "%", "m", ".", "%", "d">>

WriterPattern(index, svc) ==
    IF index = <<>> THEN DefaultPattern(svc) ELSE PatternString(index)

Digit(n) == <<"0", "1", "2", "3", "4", "5", "6", "7", "8", "9">>[n + 1]

RECURSIVE Decimal(_)
Decimal(n) == IF n < 10 THEN <<Digit(n)>> ELSE Append(Decimal(n \div 10), Digit(n % 10))

\* fmt.Sprintf("%0<width>d", n)
RECURSIVE ZeroPad(_, _)
ZeroPad(str, width) == IF Len(str) >= width THEN str ELSE ZeroPad(<<"0">> \o str, width)

Sprintf04d(n) == ZeroPad(Decimal(n), 4)
Sprintf02d(n) == ZeroPad(Decimal(n), 2)

\* strings.ReplaceAll(str, old, new): the non-overlapping occurrences of old,
\* left to right; what was put in is not searched again
RECURSIVE ReplaceAll(_, _, _)
ReplaceAll(str, old, new) ==
    IF Len(str) < Len(old) THEN str
    ELSE IF SubSeq(str, 1, Len(old)) = old
    THEN new \o ReplaceAll(SubSeq(str, Len(old) + 1, Len(str)), old, new)
    ELSE <<Head(str)>> \o ReplaceAll(Tail(str), old, new)

\* generateIndexName: four ReplaceAll passes, each over the result of the one
\* before
generateIndexName(pattern, svc, t) ==
    LET n1 == ReplaceAll(pattern, <<"<service>">>, svc)
        n2 == ReplaceAll(n1, <<"%", "Y">>, Sprintf04d(t.year))
        n3 == ReplaceAll(n2, <<"%", "m">>, Sprintf02d(t.month))
    IN ReplaceAll(n3, <<"%", "d">>, Sprintf02d(t.day))

\* elasticsearchWriter.Write computes the index name of a document
GenerateIndexName ==
    /\ indexName = <<"none">>
    /\ indexName' = generateIndexName(WriterPattern(indexPattern, service), service, now)
    /\ UNCHANGED <<outsideIndexName, indexPattern, service, now>>

InitIndexName ==
    /\ SinkLoggerIdle
    /\ WithIdle
    /\ RegIdle
    /\ DLQIdle
    /\ BackoffIdle
    /\ indexPattern \in IndexPatterns
    /\ service \in ServiceNames
    /\ now \in Dates
    /\ indexName = <<"none">>
    /\ FallbackIdle

NextIndexName == GenerateIndexName

SpecIndexName == InitIndexName /\ [][NextIndexName]_vars

\* the pattern as written: the default is <service>-%Y.%m.%d
Written(index) ==
    IF index = <<>> THEN <<"<service>", "-", "%Y", ".", "%m", ".", "%d">> ELSE index

\* what one segment of the pattern stands for
Substituted(seg, svc, t) ==
    CASE seg = "<service>" -> svc
      [] seg = "%Y" -> Sprintf04d(t.year)
      [] seg = "%m" -> Sprintf02d(t.month)
      [] seg = "%d" -> Sprintf02d(t.day)
      [] OTHER -> <<seg>>

\* the pattern with each placeholder replaced once and everything else,
\* the text put in for a placeholder included, left as it is
RECURSIVE ExpectedName(_, _, _)
ExpectedName(segs, svc, t) ==
    IF segs = <<>> THEN <<>>
    ELSE Substituted(Head(segs), svc, t) \o ExpectedName(Tail(segs), svc, t)

HasAllPlaceholders(segs) ==
    \A ph \in {"<service>", "%Y", "%m", "%d"} : \E i \in 1..Len(segs) : segs[i] = ph

\* C21: index-name computation.  For every pattern that contains <service>,
\* %Y, %m and %d and every service name, the computed index name is the
\* pattern with each <service> replaced once by the service name and the date
\* placeholders by the zero-padded UTC year, month and day, and nothing else
\* altered -- the service name that was put in included.
C21_IndexNameSubstitution ==
    (indexName # <<"none">> /\ HasAllPlaceholders(Written(indexPattern))) =>
        indexName = ExpectedName(Written(indexPattern), service, now)

\* ---------------------------------------------------- Sync, Close and the DLQ
\* C22: Sync of the Elasticsearch sink is a no-op.  Whatever Sync calls were
\* made, the batching primitive is closed only by Close: while no Close of
\* the sink has begun it has not been closed, so that a write after a Sync is
\* enqueued on an open primitive.
C22_SyncIsNoop ==
    /\ indexer.closeCalls > 0 => closeOnce # "idle"
    /\ indexer.addsWhenClosed > 0 => closeOnce # "idle"

\* the step closes the DLQ file
ClosesDLQFile == dlqFile = "open" /\ dlqFile' = "closed"

\* the step is a per-document failure callback of the flush that the close of
\* the batching primitive started: a queued document leaves the queue and
\* does not reach the backend
FinalFlushFailure ==
    /\ indexer.closed
    /\ Len(indexer'.queue) < Len(indexer.queue)
    /\ backend' = backend

\* C23: close order inside the Elasticsearch sink.  The DLQ file is closed
\* only by the Close body after its call of the primitive's flush-and-close
\* has returned, and every per-document failure callback fired by that final
\* flush finds the DLQ file still open.
C23_DLQClosedAfterFlush ==
    [][/\ ClosesDLQFile =>
            /\ indexer.closeCalls >= 1
            /\ \E t \in Threads : pc[t] = "c_dlq" /\ call[t].ixErr # "none"
       /\ FinalFlushFailure => dlqFile # "closed"]_vars

\* ------------------------------------------------------- retry accounting
\* the re-attempts begun in this step: the retry loops that went round once more
ReattemptsInStep ==
    Cardinality({t \in Threads : call'[t].sleeps = call[t].sleeps + 1})

\* a finished write through the retry wrapper: k failed attempts, each followed
\* by one re-attempt, then either a success, returned after k+1 inner calls
\* with no "retries_exhausted" entry, or -- with k = Max -- one more failure
RetryCallsAccounted ==
    \A t \in Threads :
        (FinishedWrite(t) /\ Wrapped) =>
            LET c == call[t]
                n == Len(c.inner) IN
            /\ n >= 1 /\ n <= retryMax + 1
            /\ c.sleeps = n - 1
            /\ \A i \in 1..(n - 1) : c.inner[i] # "nil"
            /\ c.result = c.inner[n]
            /\ c.result = "nil" => TriedWith(c, "retries_exhausted") = {}
            /\ c.result # "nil" => n = retryMax + 1

\* C24 (as stated): retry accounting.  A write that fails k times and then
\* succeeds returns success after exactly k+1 inner calls and appends no
\* "retries_exhausted" entry; in every run the bulk-retry counter increases
\* by exactly the number of re-attempts made (k on success, Max on
\* exhaustion).
C24_RetryAccounting ==
    /\ []RetryCallsAccounted
    /\ [][metrics'.retries = metrics.retries + ReattemptsInStep]_vars

\* C24 (amended): the same, the bulk-retry counter increasing by exactly the
\* number of re-attempts when the writer was built with metrics enabled, and
\* not at all when it was built without.
C24_RetryAccountingAmended ==
    /\ []RetryCallsAccounted
    /\ [][metrics'.retries =
            metrics.retries + (IF metricsOn THEN ReattemptsInStep ELSE 0)]_vars

\* C24 witness: with metrics enabled, a wrapped write whose first attempt
\* failed succeeded at the re-attempt: two inner calls, one retry counted, no
\* "retries_exhausted" entry
C24_Witness ==
    \E t \in Threads :
        /\ FinishedWrite(t) /\ Wrapped /\ metricsOn
        /\ call[t].result = "nil"
        /\ Len(call[t].inner) = 2
        /\ call[t].inner[1] = ErrAdd
        /\ metrics.retries = 1
        /\ TriedWith(call[t], "retries_exhausted") = {}

\* ------------------------------------------------- Write racing with Close
\* C25: in the writer that checks w.closed, under every interleaving of Write
\* and Close no Add is issued to the batching primitive once its close has
\* begun.
C25_NoAddAfterClose ==
    variant = "corefactories" => indexer.addsWhenClosed = 0

\* the step calls writeToDLQ: from a Write or the retry wrapper, or from the
\* failure callback of a flushed document
AppendAttempted ==
    \/ \E t \in Threads : Len(call'[t].tried) = Len(call[t].tried) + 1
    \/ Len(indexer'.queue) < Len(indexer.queue) /\ backend' = backend

\* C26: no DLQ append is performed on a DLQ file that has been closed.  With
\* a DLQ file configured, every writeToDLQ call -- of a Write rejected as
\* "writer_closed", of the retry wrapper on exhaustion, of a per-document
\* failure callback -- finds the file open and leaves one more entry in it.
C26_NoAppendOnClosedDLQ ==
    [][(AppendAttempted /\ dlqFile # "nil") =>
            /\ dlqFile = "open"
            /\ Len(dlq') = Len(dlq) + 1]_vars

\* ------------------------------------------------ delivered and not dropped
Delivered(id) == \E i \in 1..Len(backend) : backend[i].msg = id

\* every call made on the sink so far is a write through the retry wrapper
\* that returned success, and the backend has indexed its record
AllWritesDelivered ==
    /\ Wrapped
    /\ nOps = Cardinality({t \in Threads : call[t].op = "write"})
    /\ \A t \in Threads :
         call[t].op # "none" =>
            /\ FinishedWrite(t)
            /\ call[t].result = "nil"
            /\ Delivered(call[t].line.id)

\* C27: a record that is delivered is never counted as dropped.  When every
\* write made through the retry wrapper has succeeded, after failed attempts
\* or not, and its record is in the backend, no logs_dropped_total series has
\* increased.
C27_DeliveredNeverDropped ==
    AllWritesDelivered =>
        \A k \in Sinks \X DropReasons : metrics.dropped[k] = 0

\* --------------------------------------------------- closing after a sync
\* C28: a failing sync does not leave sinks unclosed.  A Logger.Close whose
\* initial sync returned an error (other than the tolerated stdout/stderr
\* one) has, when it returns, invoked every registered closer.
C28_FailedSyncStillCloses ==
    \A t \in Threads :
        (/\ frame[t].op = "close"
         /\ frame[t].result # "pending"
         /\ frame[t].syncErr # "nil") =>
            /\ Len(frame[t].res) = Len(lg.closers)
            /\ \A k \in 1..Len(lg.closers) : lg.closerCalls[lg.closers[k]] >= 1

\* ------------------------------------------ derived loggers and shutdown
\* The logger NewWithOptions returned (handle 1) and the loggers derived
\* from it with With and WithContext, used by several goroutines.  A derived
\* zapAdapter holds l.zl.With(...), a clone over the same core, and the
\* closers slice of its parent.
MaxShared == 3

SharedOptions ==
    [env |-> "prod", level |-> "warn", stacktraceAt |-> "error",
     disableConsole |-> TRUE, file |-> FALSE, elastic |-> TRUE,
     metrics |-> FALSE, sampling |-> FALSE]

DeriveWith(p, fs) ==
    /\ lg.state = "built"
    /\ Len(handles) < MaxShared
    /\ DoWith(p, fs)

DeriveWithContext(p, fs) ==
    /\ lg.state = "built"
    /\ Len(handles) < MaxShared
    /\ DoWithContext(p, fs)

LogThrough(t, h, level) ==
    /\ h <= Len(handles)
    /\ LogVia(t, h, level, FALSE)

CloseThrough(t, h, ctx) ==
    /\ h <= Len(handles)
    /\ CloseVia(t, h, ctx)

InitShared ==
    /\ opts = SharedOptions
    /\ variant = "zapx"
    /\ retryMax = 0
    /\ metricsOn = opts.metrics
    /\ closed = FALSE
    /\ closeOnce = "idle"
    /\ dlqFile = "open"
    /\ dlq = <<>>
    /\ indexer = NewIndexer
    /\ backend = <<>>
    /\ wsLock = 0
    /\ metrics = NoMetrics
    /\ pc = [t \in Threads |-> "idle"]
    /\ call = [t \in Threads |-> NoCall]
    /\ nOps = 0
    /\ dlqCloses = 0
    /\ closeReturned = FALSE
    /\ lg = NoLogger
    /\ frame = [t \in Threads |-> NoFrame]
    /\ out = NoOutput
    /\ handles = <<RootHandle>>
    /\ emitted = <<>>
    /\ RegIdle
    /\ DLQIdle
    /\ BackoffIdle
    /\ IndexNameIdle
    /\ FallbackIdle

NextShared ==
    \/ NewWithOptions
    \/ \E p \in 1..MaxShared, k \in FieldKeys : DeriveWith(p, <<k>>)
    \/ \E p \in 1..MaxShared, fs \in ContextFields : DeriveWithContext(p, fs)
    \/ \E t \in Threads, h \in 1..MaxShared : LogThrough(t, h, "error")
    \/ \E t \in Threads : CoreWriteES(t)
    \/ \E t \in Threads : WriteAdd(t)
    \/ \E t \in Threads : WriteAddDLQ(t)
    \/ \E t \in Threads : CoreReturnES(t)
    \/ \E t \in Threads, h \in 1..MaxShared : CloseThrough(t, h, "live")
    \/ \E t \in Threads : CloseSyncES(t)
    \/ \E t \in Threads : IndexerCloseDone(t)
    \/ \E t \in Threads : IndexerCloseTimeout(t)
    \/ \E t \in Threads : CloseAfterSync(t)
    \/ \E t \in Threads : CloserES(t)
    \/ \E t \in Threads : CloseIndexer(t)
    \/ \E t \in Threads : CloseDLQ(t)
    \/ \E t \in Threads : CloseWake(t)
    \/ \E t \in Threads : CloserESReturn(t)
    \/ \E t \in Threads : CloseFinish(t)
    \/ IndexerFlush

SpecShared == InitShared /\ [][NextShared]_vars

\* a Close on any of the loggers has returned after a successful sync: the
\* shared Elasticsearch closer has run and the sink is closed
ClosedByAny ==
    \A t \in Threads :
        (/\ frame[t].op = "close" /\ frame[t].result # "pending"
         /\ frame[t].syncErr = "nil") =>
            /\ lg.closerCalls["elasticsearch"] >= 1
            /\ closed
            /\ closeOnce = "done"

\* a write to the Elasticsearch sink that was made after the sink's Close had
\* returned, through another logger of the family than the one Close was
\* called on (its parent or a sibling), is rejected as closed without an Add
RejectedForAll ==
    \A t \in Threads :
        (/\ frame[t].op = "log" /\ frame[t].via \in 1..Len(handles)
         /\ call[t].op = "write" /\ call[t].result # "pending"
         /\ call[t].line.id = frame[t].id
         /\ call[t].afterClose
         /\ \E u \in Threads \ {t} :
              frame[u].op = "close" /\ frame[u].via # frame[t].via) =>
            /\ call[t].result = ErrClosed
            /\ call[t].adds = 0

\* the step neither reopens the sink nor rebuilds the logger's cores
NeverReopened ==
    /\ closed => closed'
    /\ indexer.closed => indexer'.closed
    /\ dlqFile = "closed" => dlqFile' = "closed"
    /\ lg.state = "built" => (lg'.cores = lg.cores /\ lg'.closers = lg.closers)

\* C29: loggers derived with With or WithContext share shutdown with their
\* parent.  Closing any one of them runs the shared closers; afterwards writes
\* to the Elasticsearch sink from the parent and from every sibling are
\* rejected as closed, and no step reopens or rebuilds the sink.
C29_SharedShutdown ==
    /\ [](ClosedByAny /\ RejectedForAll)
    /\ [][NeverReopened]_vars

\* ------------------------------------------------------ the fallback logger
\* Package contextLogger: SetFallbackLogger(l) and the lookups FromContext
\* makes through getFallback when the context carries no logger.
MaxLookups == 2

\* a goroutine calls SetFallbackLogger(l)
SetFallbackLogger(t) ==
    /\ fpc[t] = "idle"
    /\ ~fbHist.setCalled
    /\ fbHist' = [fbHist EXCEPT !.setCalled = TRUE]
    /\ fcall' = [fcall EXCEPT ![t] = [NoFbCall EXCEPT !.op = "set"]]
    /\ fpc' = [fpc EXCEPT ![t] = "set_wait"]
    /\ UNCHANGED <<outsideFallback, fbLogger, fbOnce, fbMu>>

\* fbMu.Lock()
SetLock(t) ==
    /\ fpc[t] = "set_wait"
    /\ WriteLockFree(fbMu)
    /\ fbMu' = [fbMu EXCEPT !.writer = t]
    /\ fpc' = [fpc EXCEPT ![t] = "set_locked"]
    /\ UNCHANGED <<outsideFallback, fbLogger, fbOnce, fcall, fbHist>>

\* fbLogger = l
SetStore(t) ==
    /\ fpc[t] = "set_locked"
    /\ fbLogger' = "l"
    /\ fpc' = [fpc EXCEPT ![t] = "set_stored"]
    /\ UNCHANGED <<outsideFallback, fbOnce, fbMu, fcall, fbHist>>

\* fbMu.Unlock(); SetFallbackLogger returns
SetUnlock(t) ==
    /\ fpc[t] = "set_stored"
    /\ fbMu' = [fbMu EXCEPT !.writer = 0]
    /\ fbHist' = [fbHist EXCEPT !.setReturned = TRUE]
    /\ fcall' = [fcall EXCEPT ![t].result = "done"]
    /\ fpc' = [fpc EXCEPT ![t] = "idle"]
    /\ UNCHANGED <<outsideFallback, fbLogger, fbOnce>>

\* FromContext with a context that carries no logger: getFallback()
FromContext(t) ==
    /\ fpc[t] = "idle"
    /\ fbHist.lookups < MaxLookups
    /\ fbHist' = [fbHist EXCEPT !.lookups = @ + 1]
    /\ fcall' = [fcall EXCEPT ![t] = [NoFbCall EXCEPT !.op = "lookup",
                                                     !.afterSet = fbHist.setReturned]]
    /\ fpc' = [fpc EXCEPT ![t] = "g_wait"]
    /\ UNCHANGED <<outsideFallback, fbLogger, fbOnce, fbMu>>

\* getFallback: fbMu.RLock()
GetRLock(t) ==
    /\ fpc[t] = "g_wait"
    /\ ReadLockFree(fbMu)
    /\ fbMu' = [fbMu EXCEPT !.readers = @ \cup {t}]
    /\ fpc' = [fpc EXCEPT ![t] = "g_rlocked"]
    /\ UNCHANGED <<outsideFallback, fbLogger, fbOnce, fcall, fbHist>>

\* l := fbLogger; fbMu.RUnlock(); a non-nil l is returned
GetRead(t) ==
    /\ fpc[t] = "g_rlocked"
    /\ fbMu' = [fbMu EXCEPT !.readers = @ \ {t}]
    /\ fcall' = [fcall EXCEPT ![t].l = fbLogger,
                              ![t].result = IF fbLogger # "nil" THEN fbLogger ELSE @]
    /\ fpc' = [fpc EXCEPT ![t] = IF fbLogger # "nil" THEN "idle" ELSE "g_once"]
    /\ UNCHANGED <<outsideFallback, fbLogger, fbOnce, fbHist>>

\* fbOnce.Do(...): the first caller runs the body, a caller that arrives while
\* it runs waits, a later caller goes on
GetOnce(t) ==
    /\ fpc[t] = "g_once"
    /\ LET how == OnceEnter(fbOnce) IN
       /\ fbOnce' = IF how = "run" THEN "running" ELSE fbOnce
       /\ fpc' = [fpc EXCEPT ![t] =
                    IF how = "run" THEN "o_wait"
                    ELSE IF how = "wait" THEN "o_blocked" ELSE "g_wait2"]
    /\ UNCHANGED <<outsideFallback, fbLogger, fbMu, fcall, fbHist>>

\* the body of the Once: fbMu.Lock()
OnceLock(t) ==
    /\ fpc[t] = "o_wait"
    /\ WriteLockFree(fbMu)
    /\ fbMu' = [fbMu EXCEPT !.writer = t]
    /\ fpc' = [fpc EXCEPT ![t] = "o_locked"]
    /\ UNCHANGED <<outsideFallback, fbLogger, fbOnce, fcall, fbHist>>

\* the body of the Once: fbLogger = zapx.NewDefaultLogger(), whatever it held
OnceStored(cur) == "default"

\* the body of the Once stores the default and unlocks; the Once is done
OnceStore(t) ==
    /\ fpc[t] = "o_locked"
    /\ fbLogger' = OnceStored(fbLogger)
    /\ fbHist' = [fbHist EXCEPT !.built = @ + 1]
    /\ fbMu' = [fbMu EXCEPT !.writer = 0]
    /\ fbOnce' = "done"
    /\ fpc' = [fpc EXCEPT ![t] = "g_wait2"]
    /\ UNCHANGED <<outsideFallback, fcall>>

\* a caller that waited in fbOnce.Do goes on when the body has finished
OnceWake(t) ==
    /\ fpc[t] = "o_blocked"
    /\ fbOnce = "done"
    /\ fpc' = [fpc EXCEPT ![t] = "g_wait2"]
    /\ UNCHANGED <<outsideFallback, fbLogger, fbOnce, fbMu, fcall, fbHist>>

\* the second fbMu.RLock()
GetRLockAgain(t) ==
    /\ fpc[t] = "g_wait2"
    /\ ReadLockFree(fbMu)
    /\ fbMu' = [fbMu EXCEPT !.readers = @ \cup {t}]
    /\ fpc' = [fpc EXCEPT ![t] = "g_rlocked2"]
    /\ UNCHANGED <<outsideFallback, fbLogger, fbOnce, fcall, fbHist>>

\* l = fbLogger; fbMu.RUnlock(); return l
GetReadAgain(t) ==
    /\ fpc[t] = "g_rlocked2"
    /\ fbMu' = [fbMu EXCEPT !.readers = @ \ {t}]
    /\ fcall' = [fcall EXCEPT ![t].l = fbLogger, ![t].result = fbLogger]
    /\ fpc' = [fpc EXCEPT ![t] = "idle"]
    /\ UNCHANGED <<outsideFallback, fbLogger, fbOnce, fbHist>>

InitFallback ==
    /\ SinkLoggerIdle
    /\ WithIdle
    /\ RegIdle
    /\ DLQIdle
    /\ BackoffIdle
    /\ IndexNameIdle
    /\ FallbackIdle

NextFallback ==
    \/ \E t \in Threads : SetFallbackLogger(t)
    \/ \E t \in Threads : SetLock(t)
    \/ \E t \in Threads : SetStore(t)
    \/ \E t \in Threads : SetUnlock(t)
    \/ \E t \in Threads : FromContext(t)
    \/ \E t \in Threads : GetRLock(t)
    \/ \E t \in Threads : GetRead(t)
    \/ \E t \in Threads : GetOnce(t)
    \/ \E t \in Threads : OnceLock(t)
    \/ \E t \in Threads : OnceStore(t)
    \/ \E t \in Threads : OnceWake(t)
    \/ \E t \in Threads : GetRLockAgain(t)
    \/ \E t \in Threads : GetReadAgain(t)

SpecFallback == InitFallback /\ [][NextFallback]_vars

\* C30: a fallback logger installed with SetFallbackLogger is never replaced
\* by the lazily created default.  Every fallback lookup that started after
\* SetFallbackLogger(l) had returned yields l, and the default logger is
\* constructed at most once.
C30_FallbackNeverReplaced ==
    /\ \A t \in Threads :
         (/\ fcall[t].op = "lookup"
          /\ fcall[t].result # "pending"
          /\ fcall[t].afterSet) =>
             fcall[t].result = "l"
    /\ fbHist.built <= 1

====
